---- MODULE Spec2Model ----
(***************************************************************************)
(* Two-pass photo-to-inventory pipeline of movemate-visual and the pages   *)
(* that review the inventory it produced.                                  *)
(*                                                                         *)
(*   client : src/src/pages/Upload.tsx            (handleAnalyze)          *)
(*   server : src/supabase/functions/analyze-inventory/index.ts            *)
(*            (serve, handleRoomDetection)                                 *)
(*   review : src/src/pages/Review.tsx, src/unnamed/part_002               *)
(*   shared : src/src/pages/SharedInventory.tsx                            *)
(*   report : src/supabase/functions/generate-inventory-pdf/index.ts       *)
(*                                                                         *)
(* Spec      follows one run of handleAnalyze: session, upload, room       *)
(*           detection (pass 1), the per-photo extraction loop (pass 2),   *)
(*           the insert of the collected items and the totals update.      *)
(*           The vision capability is an oracle: each call either is       *)
(*           rejected, answers text no JSON can be taken from, or answers  *)
(*           a JSON value drawn from a small set.                          *)
(* SpecParse applies the server's text-to-JSON extraction to every text    *)
(*           over a small alphabet, character by character.                *)
(* SpecReview follows the owner's review page: the load, the item         *)
(*           operations with their awaits interleaved, the page with       *)
(*           cached totals and Update & Save, and a second editor.         *)
(* SpecShared follows the shared view opened with a token: the load, the   *)
(*           item operations and the safety factor.                        *)
(* SpecReport follows the shared view up to the report it asks for.        *)
(* SpecDebounce follows the debounced inputs of the page with cached       *)
(*           totals against a clock.                                       *)
(* SpecCache follows that page's edits, addNewItem and deleteItem.         *)
(* SpecTokens follows the share link: its load in two browsers and its     *)
(*           revocation by the owner (src/src/components/ShareDialog.tsx). *)
(*                                                                         *)
(* Units: volume in tenths of a cubic foot (15 = 1.5 cu ft), weight in lb. *)
(***************************************************************************)
EXTENDS Integers, Sequences, FiniteSets, TLC

VARIABLES
    files,          \* files.length: photos selected on the upload page
    currentSession, \* TRUE when the page was opened with ?session=<id>
    pc,             \* position of handleAnalyze
    failure,        \* what the outer catch (Upload.tsx:342) caught, "" if nothing
    uploaded,       \* photo indices with an uploaded_images record
    roomVision,     \* what the vision capability answered to room detection
    roomError,      \* error of the room-detection invoke
    roomMappings,   \* roomData?.image_room_mapping || {}   (photo index -> rooms)
    detectedRooms,  \* roomData?.rooms_detected || []
    i,              \* loop variable of pass 2 (0-based, as in the code)
    allItems,       \* the ledger threaded through pass 2
    inflight,       \* image numbers of item-analysis invocations not yet answered
    sent,           \* bodies of the item-analysis requests, in the order issued
    prompts,        \* what the server put in the vision prompt, per request handled
    results,        \* per photo: what the loop body got for it
    dbItems,        \* rows of inventory_items of the session
    sessionTotals,  \* total_volume / total_weight of the inventory_sessions row
    analysisContent,\* SpecParse: text answered by the vision capability
    mode,           \* SpecParse: which handler receives the text
    response,       \* SpecParse: what the handler answered
    view,           \* which page the review specifications follow
    sessionId,      \* TRUE when the page has a session (?session=<id>, or the token's)
    items,          \* the page's in-memory item list (useState items)
    rows,           \* inventory_items rows of the session, with their ids
    session,        \* the inventory_sessions row: totals and safety_factor
    ops,            \* owner's page: operations started and not yet finished
    cachedTotals,   \* part_002: cachedTotals
    hasUnsavedChanges, \* part_002: hasUnsavedChanges
    edited,         \* history: ids of the items this page edited
    recalcFresh,    \* history: recalculateAll ran and items did not change since
    totalsFresh,    \* history: updateSessionTotals ran and rows did not change since
    token,          \* SharedInventory: the :token of the URL
    accessToken,    \* SharedInventory: useState accessToken
    loadpc,         \* position of the page's load (loadInventoryData, loadSharedData)
    itemQueries,    \* SharedInventory: number of inventory_items selects issued
    safetyFactor,   \* SharedInventory: useState safetyFactor, in percent
    newItem,        \* SharedInventory: useState newItem (the add form)
    activeAddFormRoom, \* SharedInventory: useState activeAddFormRoom
    report,         \* totals printed by generate-inventory-pdf, and those on screen then
    returnedEarly,  \* history: a mutation handler of the shared view returned at its guard
    now,            \* part_002: the clock, in quarters of a second
    debounceTimers, \* part_002: debounceTimers.current, the timers not yet fired
    editingValues,  \* part_002: useState editingValues
    strokes,        \* history: per item and field, the last keystroke and its burst
    revoked,        \* tokens whose row revokeAccess has set is_active = false
    accessCount,    \* access_count of the row of the URL's token
    accessData,     \* SharedInventory: access_count of the row the load read
    visitor         \* the load of the same link in another browser

vars == <<files, currentSession, pc, failure, uploaded, roomVision, roomError, roomMappings,
          detectedRooms, i, allItems, inflight, sent, prompts, results, dbItems,
          sessionTotals, analysisContent, mode, response,
          view, sessionId, items, rows, session, ops, cachedTotals,
          hasUnsavedChanges, edited, recalcFresh, totalsFresh,
          token, accessToken, loadpc, itemQueries, safetyFactor, newItem,
          activeAddFormRoom, report, returnedEarly,
          now, debounceTimers, editingValues, strokes,
          revoked, accessCount, accessData, visitor>>

pipelineVars == <<files, currentSession, pc, failure, uploaded, roomVision, roomError,
                  roomMappings, detectedRooms, i, allItems, inflight, sent,
                  prompts, results, dbItems, sessionTotals>>

parseVars == <<analysisContent, mode, response>>

ownerVars == <<ops, cachedTotals, hasUnsavedChanges, edited, recalcFresh,
               totalsFresh>>

sharedVars == <<token, accessToken, loadpc, itemQueries, safetyFactor, newItem,
                activeAddFormRoom, report, returnedEarly>>

debounceVars == <<now, debounceTimers, editingValues, strokes>>

tokenVars == <<revoked, accessCount, accessData, visitor>>

reviewVars == <<view, sessionId, items, rows, session, ownerVars, sharedVars,
                debounceVars, tokenVars>>

(* useState(0.2) of the shared view, in percent.                           *)
DefaultSafetyFactor == 20

(* No review page and no shared view is open.                              *)
NoTotals == [totalVolume |-> 0, totalWeight |-> 0, totalItems |-> 0]

(* useState of cachedTotals, part_002:238-244.                             *)
NoCache == [totalVolume |-> 0, totalWeight |-> 0, totalItems |-> 0,
            roomGroups |-> <<>>]

(* useState<AccessToken | null>(null): no token row.                       *)
NoToken == [token |-> "", is_active |-> FALSE, access_level |-> "null"]

EmptyForm == [name |-> "", quantity |-> 1, volume |-> 0, weight |-> 0,
              room |-> "", is_going |-> TRUE]

NoReport == [printed |-> FALSE, pdf |-> NoTotals, onScreen |-> NoTotals,
             inSync |-> FALSE]

OwnerIdle ==
    /\ ops = {}
    /\ cachedTotals = NoCache
    /\ hasUnsavedChanges = FALSE
    /\ edited = {}
    /\ recalcFresh = FALSE
    /\ totalsFresh = FALSE

SharedIdle ==
    /\ token = "none"
    /\ accessToken = NoToken
    /\ loadpc = "idle"
    /\ itemQueries = 0
    /\ safetyFactor = DefaultSafetyFactor
    /\ newItem = EmptyForm
    /\ activeAddFormRoom = "null"
    /\ report = NoReport
    /\ returnedEarly = FALSE

(* useRef({}) and useState({}) of part_002:87 and 235; nothing typed.      *)
DebounceIdle ==
    /\ now = 0
    /\ debounceTimers = <<>>
    /\ editingValues = <<>>
    /\ strokes = <<>>

NoVisit == [pc |-> "idle", access_count |-> 0]

(* No token has been revoked, the link has not been opened.                *)
TokenIdle ==
    /\ revoked = {}
    /\ accessCount = 0
    /\ accessData = 0
    /\ visitor = NoVisit

ReviewIdle ==
    /\ DebounceIdle
    /\ TokenIdle
    /\ view = "none"
    /\ sessionId = FALSE
    /\ items = <<>>
    /\ rows = <<>>
    /\ session = [total_volume |-> 0, total_weight |-> 0, safety_factor |-> DefaultSafetyFactor]
    /\ OwnerIdle
    /\ SharedIdle

-----------------------------------------------------------------------------
(* Bounds *)

MaxPhotos == 2

(* Operations of the owner's page that may be in flight together.          *)
MaxOps == 2

-----------------------------------------------------------------------------
(* What the vision capability may answer to an item-analysis call: the     *)
(* elements of the JSON array it returned.  found_in_image = 0 stands for  *)
(* "the object has no such field".                                         *)

Sofa ==
    [name |-> "Sofa", quantity |-> 1, volume |-> 400, weight |-> 150,
     room |-> "Living Room", found_in_image |-> 0]

Fridge ==
    [name |-> "Fridge", quantity |-> 1, volume |-> 300, weight |-> 150,
     room |-> "Kitchen", found_in_image |-> 0]

SmallBoxes ==
    [name |-> "Small Boxes", quantity |-> 2, volume |-> 15, weight |-> 15,
     room |-> "Kitchen", found_in_image |-> 0]

Lamp ==
    [name |-> "Lamp", quantity |-> 1, volume |-> 30, weight |-> 10,
     room |-> "Garage", found_in_image |-> 0]

Rug ==
    [name |-> "Rug", quantity |-> 1, volume |-> 100, weight |-> 40,
     room |-> "Living Room", found_in_image |-> 9]

VisionItemLists ==
    { <<>>, <<Sofa>>, <<Fridge, SmallBoxes>>, <<Lamp>>, <<Rug>> }

(* An item-analysis call to the vision capability ends in one of:          *)
(*   reject      - !response.ok or a response without choices              *)
(*   unparseable - text from which no JSON array is taken                  *)
(*   array       - text holding the JSON array `items`                     *)
ItemVisionOutcomes ==
    { [kind |-> "reject", items |-> <<>>],
      [kind |-> "unparseable", items |-> <<>>] }
        \cup { [kind |-> "array", items |-> l] : l \in VisionItemLists }

(* What the vision capability may answer to a room-detection call for n    *)
(* photos.  The key "image<k>" of image_room_mapping is modelled as k.     *)
(* hasRooms / hasMapping = FALSE: the JSON object lacks the field.         *)

NoObject ==
    [hasRooms |-> FALSE, rooms_detected |-> <<>>,
     hasMapping |-> FALSE, image_room_mapping |-> <<>>]

GoodRooms(n) ==
    [hasRooms |-> TRUE, rooms_detected |-> <<"Kitchen", "Living Room">>,
     hasMapping |-> TRUE,
     image_room_mapping |->
        [k \in 1..n |-> IF k = 1 THEN <<"Kitchen">> ELSE <<"Living Room">>]]

OrphanRooms(n) ==
    [hasRooms |-> TRUE, rooms_detected |-> <<"Kitchen">>,
     hasMapping |-> TRUE,
     image_room_mapping |-> [k \in 1..n |-> <<"Kitchen", "Garage">>]]

PartialRooms(n) ==
    [hasRooms |-> TRUE, rooms_detected |-> <<"Kitchen">>,
     hasMapping |-> TRUE,
     image_room_mapping |-> [k \in {1} |-> <<"Kitchen">>]]

(*   reject      - !response.ok or a response without choices              *)
(*   unparseable - text from which no JSON is taken                        *)
(*   object      - text holding the JSON object `obj` (NoObject is "{}")   *)
RoomVisionOutcomes(n) ==
    { [kind |-> "reject", obj |-> NoObject],
      [kind |-> "unparseable", obj |-> NoObject] }
        \cup { [kind |-> "object", obj |-> o] :
                 o \in {NoObject, GoodRooms(n), OrphanRooms(n), PartialRooms(n)} }

NotAsked == [kind |-> "none", obj |-> NoObject]

-----------------------------------------------------------------------------
(* Server: analyze-inventory/index.ts *)

(* handleRoomDetection's catch (parseError): the fallback room mapping.    *)
FallbackRoomMapping(n) ==
    [hasRooms |-> TRUE,
     rooms_detected |-> <<"Living Room", "Kitchen", "Bedroom", "Bathroom">>,
     hasMapping |-> TRUE,
     image_room_mapping |-> [k \in 1..n |-> <<"Living Room">>]]

(* handleRoomDetection(images, apiKey) as seen by the caller of the edge   *)
(* function: a throw ends in serve's catch, which answers status 500.      *)
handleRoomDetection(n, vision) ==
    IF n = 0 \/ vision.kind = "reject"
    THEN [ok |-> FALSE, body |-> NoObject]
    ELSE IF vision.kind = "unparseable"
    THEN [ok |-> TRUE, body |-> FallbackRoomMapping(n)]
    ELSE [ok |-> TRUE, body |-> vision.obj]

(* const currentRooms = roomMappings[`image${imageNumber}`] || []          *)
currentRooms(mappings, imageNumber) ==
    IF imageNumber \in DOMAIN mappings THEN mappings[imageNumber] ELSE <<>>

(* One line of ITEMS ALREADY CATALOGED IN PREVIOUS IMAGES.                 *)
LedgerLine(item) ==
    [name |-> item.name, quantity |-> item.quantity,
     room |-> IF item.room = "" THEN "Unknown" ELSE item.room]

(* The context serve puts in the system prompt of an item-analysis call.   *)
PromptContext(body) ==
    [imageNumber |-> body.imageNumber,
     existingItemsContext |->
        [j \in 1..Len(body.existingItems) |-> LedgerLine(body.existingItems[j])],
     roomContext |-> currentRooms(body.roomMappings, body.imageNumber)]

RethrowParseError == [ok |-> FALSE, inventoryItems |-> <<>>]

(* serve's catch (parseError): "Last resort: return empty array".          *)
ParseFallback == [ok |-> TRUE, inventoryItems |-> <<>>]

(* inventoryItems.map((item, index) => ({id, found_in_image, ...item})):   *)
(* a field of the vision's object overrides the one set before the spread. *)
itemsWithIds(inventoryItems, imageNumber) ==
    [j \in 1..Len(inventoryItems) |->
        [id |-> <<imageNumber, j>>,
         found_in_image |->
            IF inventoryItems[j].found_in_image # 0
            THEN inventoryItems[j].found_in_image ELSE imageNumber,
         name |-> inventoryItems[j].name,
         quantity |-> inventoryItems[j].quantity,
         volume |-> inventoryItems[j].volume,
         weight |-> inventoryItems[j].weight,
         room |-> inventoryItems[j].room]]

(* serve in mode item-analysis, as seen by the caller: [ok, items].        *)
serveItemAnalysis(body, vision) ==
    IF vision.kind = "reject"
    THEN [ok |-> FALSE, items |-> <<>>]
    ELSE LET parsed == IF vision.kind = "unparseable"
                       THEN ParseFallback
                       ELSE [ok |-> TRUE, inventoryItems |-> vision.items]
         IN IF parsed.ok
            THEN [ok |-> TRUE,
                  items |-> itemsWithIds(parsed.inventoryItems, body.imageNumber)]
            ELSE [ok |-> FALSE, items |-> <<>>]

-----------------------------------------------------------------------------
(* Client: Upload.tsx, handleAnalyze *)

NoResult == [kind |-> "none", items |-> <<>>]

(* Rows a session continued with ?session=<id> may already hold (lines     *)
(* 37-59: loadExistingSession); a new session holds none.                  *)
ExistingRows ==
    << [name |-> "Bed", quantity |-> 1, volume |-> 600, weight |-> 150,
        found_in_image |-> 1, room |-> "Bedroom", ai_generated |-> TRUE,
        is_going |-> TRUE] >>

RowsBefore(continued) == IF continued THEN {<<>>, ExistingRows} ELSE {<<>>}

Init ==
    /\ files \in 0..MaxPhotos
    /\ currentSession \in BOOLEAN
    /\ pc = "idle"
    /\ failure = ""
    /\ uploaded = {}
    /\ roomVision = NotAsked
    /\ roomError = FALSE
    /\ roomMappings = <<>>
    /\ detectedRooms = <<>>
    /\ i = 0
    /\ allItems = <<>>
    /\ inflight = {}
    /\ sent = <<>>
    /\ prompts = <<>>
    /\ results = [k \in 1..files |-> NoResult]
    /\ dbItems \in RowsBefore(currentSession)
    /\ sessionTotals =
         [total_volume |-> IF dbItems = <<>> THEN 0 ELSE 600,
          total_weight |-> IF dbItems = <<>> THEN 0 ELSE 150]
    /\ analysisContent = <<>>
    /\ mode = "none"
    /\ ReviewIdle
    /\ response = [status |-> "none", items |-> <<>>, roomMapping |-> "none"]

(* Lines 160-182: the empty-selection return, then the session to use: the *)
(* one loaded from the URL or a newly inserted one (sessionError throws).  *)
BeginAnalyze ==
    /\ pc = "idle"
    /\ IF files = 0
       THEN pc' = "returned" /\ failure' = failure
       ELSE IF currentSession
       THEN pc' = "upload" /\ failure' = failure
       ELSE \E sessionOk \in BOOLEAN :
              IF sessionOk
              THEN pc' = "upload" /\ failure' = failure
              ELSE pc' = "failed" /\ failure' = "session"
    /\ UNCHANGED <<files, currentSession, uploaded, roomVision, roomError,
                   roomMappings, detectedRooms, i, allItems, inflight, sent,
                   prompts, results, dbItems, sessionTotals, parseVars, reviewVars>>

(* Lines 185-207: every file is stored under <session>_<index+1>_<time>    *)
(* and tracked in uploaded_images; an uploadError rejects Promise.all.     *)
UploadFiles ==
    /\ pc = "upload"
    /\ \E uploadOk \in BOOLEAN :
         IF uploadOk
         THEN /\ uploaded' = 1..files
              /\ pc' = "roomDetection"
              /\ failure' = failure
         ELSE /\ uploaded' = uploaded
              /\ pc' = "failed"
              /\ failure' = "upload"
    /\ UNCHANGED <<files, currentSession, roomVision, roomError, roomMappings,
                   detectedRooms, i, allItems, inflight, sent, prompts, results,
                   dbItems, sessionTotals, parseVars, reviewVars>>

AbortOnRoomError == [pc |-> "failed", failure |-> "rooms"]

(* Lines 226-229: a roomError is logged and toasted, and the run goes on.  *)
OnRoomError == [pc |-> "loop", failure |-> ""]

(* Lines 211-241: pass 1.  The photos are read (a read error rejects       *)
(* Promise.all), the edge function is invoked in mode room-detection and   *)
(* awaited; roomData is null when the function answered an error.          *)
DetectRooms ==
    /\ pc = "roomDetection"
    /\ \/ /\ pc' = "failed"
          /\ failure' = "read"
          /\ UNCHANGED <<roomVision, roomError, roomMappings, detectedRooms>>
       \/ \E vision \in RoomVisionOutcomes(files) :
            LET answer == handleRoomDetection(files, vision)
                next == IF answer.ok THEN [pc |-> "loop", failure |-> ""]
                                     ELSE OnRoomError
            IN /\ roomVision' = vision
               /\ roomError' = ~answer.ok
               /\ roomMappings' =
                    IF answer.ok /\ answer.body.hasMapping
                    THEN answer.body.image_room_mapping ELSE <<>>
               /\ detectedRooms' =
                    IF answer.ok /\ answer.body.hasRooms
                    THEN answer.body.rooms_detected ELSE <<>>
               /\ pc' = next.pc
               /\ failure' = next.failure
    /\ i' = 0
    /\ allItems' = <<>>
    /\ UNCHANGED <<files, currentSession, uploaded, inflight, sent, prompts,
                   results, dbItems, sessionTotals, parseVars, reviewVars>>

RequestBodyWithoutLedger(imageNumber) ==
    [mode |-> "item-analysis", imageNumber |-> imageNumber,
     existingItems |-> <<>>, roomMappings |-> roomMappings]

(* Lines 264-270: the body of the item-analysis request.                   *)
RequestBody(imageNumber) ==
    [mode |-> "item-analysis", imageNumber |-> imageNumber,
     existingItems |-> allItems, roomMappings |-> roomMappings]

LoopWithoutAwait(imageNumber) == [pc |-> "loop", i |-> imageNumber]

(* Line 263: `await supabase.functions.invoke(...)` suspends iteration     *)
(* i = imageNumber - 1 until the invocation is answered.                   *)
LoopAfterInvoke(imageNumber) == [pc |-> "await", i |-> imageNumber - 1]

AbortOnImageError(imageNumber) ==
    [pc |-> "failed", i |-> imageNumber - 1, failure |-> "image"]

(* Lines 273-277 (`continue`) and 289-292 (catch imageError): the loop     *)
(* goes on with the next photo.                                            *)
OnImageError(imageNumber) ==
    [pc |-> "loop", i |-> imageNumber, failure |-> ""]

InsertOnReceive(saved, found) ==
    saved \o [j \in 1..Len(found) |->
               [name |-> found[j].name, quantity |-> found[j].quantity,
                volume |-> found[j].volume, weight |-> found[j].weight,
                found_in_image |-> found[j].found_in_image,
                room |-> found[j].room, ai_generated |-> TRUE,
                is_going |-> TRUE]]

(* Lines 279-288: the items answered for a photo go to allItems only; the  *)
(* rows of inventory_items stay as they are until the loop has ended.      *)
RowsAfterReceive(saved, found) == saved

ReplaceItems(all, found) == found

(* Line 280: allItems.push(...data.items)                                  *)
PushItems(all, found) == all \o found

(* Lines 244-271: iteration i of pass 2 up to the invocation.  The photo   *)
(* is read first; a read error is caught by the iteration's catch.         *)
InvokeItemAnalysis ==
    /\ pc = "loop"
    /\ i < files
    /\ \/ LET next == LoopAfterInvoke(i + 1)
          IN /\ sent' = Append(sent, RequestBody(i + 1))
             /\ inflight' = inflight \cup {i + 1}
             /\ pc' = next.pc
             /\ i' = next.i
             /\ UNCHANGED <<results, failure>>
       \/ LET next == OnImageError(i + 1)
          IN /\ results' = [results EXCEPT ![i + 1] =
                               [kind |-> "exception", items |-> <<>>]]
             /\ pc' = next.pc
             /\ i' = next.i
             /\ failure' = next.failure
             /\ UNCHANGED <<sent, inflight>>
    /\ UNCHANGED <<files, currentSession, uploaded, roomVision, roomError,
                   roomMappings, detectedRooms, allItems, prompts, dbItems,
                   sessionTotals, parseVars, reviewVars>>

(* The edge function handles the request of photo k and answers; the       *)
(* suspended iteration resumes at lines 273-288.                           *)
ReceiveItemAnalysis ==
    \E k \in inflight, vision \in ItemVisionOutcomes :
      LET body == CHOOSE b \in {sent[p] : p \in 1..Len(sent)} : b.imageNumber = k
          answer == serveItemAnalysis(body, vision)
          next == IF answer.ok
                  THEN [pc |-> "loop", i |-> k, failure |-> ""]
                  ELSE OnImageError(k)
      IN /\ inflight' = inflight \ {k}
         /\ prompts' = Append(prompts, PromptContext(body))
         /\ results' = [results EXCEPT ![k] =
                           IF answer.ok
                           THEN [kind |-> "ok", items |-> answer.items]
                           ELSE [kind |-> "error", items |-> <<>>]]
         /\ allItems' = IF answer.ok /\ Len(answer.items) > 0
                        THEN PushItems(allItems, answer.items)
                        ELSE allItems
         /\ pc' = next.pc
         /\ i' = next.i
         /\ failure' = next.failure
         /\ dbItems' = RowsAfterReceive(dbItems, answer.items)
         /\ UNCHANGED <<files, currentSession, uploaded, roomVision, roomError,
                        roomMappings, detectedRooms, sent, sessionTotals,
                        parseVars, reviewVars>>

(* Lines 297-306: the row inserted for an item.  `|| null` turns a falsy   *)
(* found_in_image into null, modelled as 0.                                *)
ItemToInsert(item) ==
    [name |-> item.name, quantity |-> item.quantity, volume |-> item.volume,
     weight |-> item.weight, found_in_image |-> item.found_in_image,
     room |-> item.room, ai_generated |-> TRUE, is_going |-> TRUE]

itemsToInsert(found) == [j \in 1..Len(found) |-> ItemToInsert(found[j])]

(* Lines 295-315 and 339-341: after the loop, all collected items are      *)
(* inserted at once; itemsError throws.  Nothing is inserted when the      *)
(* ledger is empty.                                                        *)
SaveItems ==
    /\ pc = "loop"
    /\ i >= files
    /\ IF Len(allItems) > 0
       THEN \E insertOk \in BOOLEAN :
              IF insertOk
              THEN /\ dbItems' = dbItems \o itemsToInsert(allItems)
                   /\ pc' = "totals"
                   /\ failure' = failure
              ELSE /\ dbItems' = dbItems
                   /\ pc' = "failed"
                   /\ failure' = "insert"
       ELSE /\ dbItems' = dbItems
            /\ pc' = "noItems"
            /\ failure' = failure
    /\ UNCHANGED <<files, currentSession, uploaded, roomVision, roomError,
                   roomMappings, detectedRooms, i, allItems, inflight, sent,
                   prompts, results, sessionTotals, parseVars, reviewVars>>

RECURSIVE SumOver(_, _)
(* existingItems.reduce((sum, item) => sum + f(item), 0), f given as the   *)
(* sequence of its values.                                                 *)
SumOver(values, n) ==
    IF n = 0 THEN 0 ELSE SumOver(values, n - 1) + values[n]

(* Lines 317-338: the session's rows are read back (fetchError throws) and *)
(* total_volume / total_weight are written from volume * quantity and      *)
(* weight * quantity of every row; then the page navigates to the review.  *)
UpdateSessionTotals ==
    /\ pc = "totals"
    /\ \E fetchOk \in BOOLEAN :
         IF fetchOk
         THEN /\ sessionTotals' =
                   [total_volume |->
                      SumOver([j \in 1..Len(dbItems) |->
                                 dbItems[j].volume * dbItems[j].quantity],
                              Len(dbItems)),
                    total_weight |->
                      SumOver([j \in 1..Len(dbItems) |->
                                 dbItems[j].weight * dbItems[j].quantity],
                              Len(dbItems))]
              /\ pc' = "done"
              /\ failure' = failure
         ELSE /\ sessionTotals' = sessionTotals
              /\ pc' = "failed"
              /\ failure' = "fetch"
    /\ UNCHANGED <<files, currentSession, uploaded, roomVision, roomError,
                   roomMappings, detectedRooms, i, allItems, inflight, sent,
                   prompts, results, dbItems, parseVars, reviewVars>>

Next ==
    \/ BeginAnalyze
    \/ UploadFiles
    \/ DetectRooms
    \/ InvokeItemAnalysis
    \/ ReceiveItemAnalysis
    \/ SaveItems
    \/ UpdateSessionTotals

Spec == Init /\ [][Next]_vars

-----------------------------------------------------------------------------
(* Properties of one run of handleAnalyze (Spec) *)

RECURSIVE AcceptedUpTo(_)
(* The items returned by the successful extractions of photos 1..n, in     *)
(* photo order, read from what the edge function answered.                 *)
AcceptedUpTo(n) ==
    IF n = 0 THEN <<>> ELSE AcceptedUpTo(n - 1) \o results[n].items

Range(seq) == {seq[j] : j \in 1..Len(seq)}

Identities(found) == {<<it.name, it.room>> : it \in Range(found)}

Attempted(k) == results[k].kind # "none"

(* The rows the insert of this run added, once it has succeeded.           *)
Saved == pc \in {"totals", "done"} \/ failure = "fetch"

SavedRows ==
    IF Saved /\ Len(dbItems) >= Len(allItems)
    THEN SubSeq(dbItems, Len(dbItems) - Len(allItems) + 1, Len(dbItems))
    ELSE <<>>

RowsBeforeRun ==
    IF Saved /\ Len(dbItems) >= Len(allItems)
    THEN SubSeq(dbItems, 1, Len(dbItems) - Len(allItems))
    ELSE dbItems

AfterLoop == pc \in {"totals", "done", "noItems"} \/ failure \in {"insert", "fetch"}

AfterPassOne == pc \in {"loop", "await", "totals", "done", "noItems"}
                    \/ failure \in {"insert", "fetch", "image"}

(* C1: the extraction requests of a run are issued in increasing photo     *)
(* order, a request is issued only when every earlier one has been         *)
(* answered, and at most one is in flight.                                 *)
C1_SequentialExtraction ==
    /\ Cardinality(inflight) <= 1
    /\ \A p, q \in 1..Len(sent) :
         p < q => sent[p].imageNumber < sent[q].imageNumber
    /\ \A p \in 1..Len(sent) :
         /\ sent[p].imageNumber \in 1..files
         /\ p < Len(sent) => /\ sent[p].imageNumber \notin inflight
                             /\ Attempted(sent[p].imageNumber)

(* C1 witness: the second request is in flight after the first one was     *)
(* answered.                                                               *)
C1_Witness ==
    /\ Len(sent) = 2
    /\ inflight = {2}
    /\ results[1].kind = "ok"

(* C2: the ledger sent with the request of photo k is exactly the items    *)
(* returned by the successful extractions of photos 1..k-1, and the server *)
(* lists each of them in the prompt with its name, quantity and room.      *)
C2_LedgerComplete ==
    /\ \A p \in 1..Len(sent) :
         sent[p].existingItems = AcceptedUpTo(sent[p].imageNumber - 1)
    /\ \A p \in 1..Len(prompts) :
         LET accepted == AcceptedUpTo(prompts[p].imageNumber - 1)
         IN prompts[p].existingItemsContext =
              [j \in 1..Len(accepted) |->
                 [name |-> accepted[j].name, quantity |-> accepted[j].quantity,
                  room |-> accepted[j].room]]

(* C2 witness: the request of photo 2 was handled with a ledger of two     *)
(* items returned for photo 1.                                             *)
C2_Witness ==
    /\ Len(prompts) = 2
    /\ prompts[2].imageNumber = 2
    /\ Len(prompts[2].existingItemsContext) = 2
    /\ Len(results[1].items) = 2

(* C3: no step of the run removes or replaces an item of the ledger: the   *)
(* name+room identities accumulated before a step are still there after    *)
(* it, and the ledger only grows at its end.                               *)
C3_LedgerMonotonic ==
    [][(pc = "loop" \/ pc = "await") =>
          ( /\ Identities(allItems) \subseteq Identities(allItems')
            /\ Len(allItems) <= Len(allItems')
            /\ SubSeq(allItems', 1, Len(allItems)) = allItems )]_vars

(* C3 witness: with items in the ledger, a later photo failed and another  *)
(* returned nothing, and the ledger still holds the items.                 *)
C3_Witness ==
    /\ files >= 2
    /\ results[1].kind = "ok" /\ Len(results[1].items) > 0
    /\ results[2].kind \in {"error", "exception"}
    /\ Identities(results[1].items) \subseteq Identities(allItems)

(* C4: a photo whose extraction failed contributes nothing and leaves the  *)
(* ledger as it was, the failure never ends the run, every photo is        *)
(* attempted, and what the other photos returned is what the insert saves. *)
C4_PerPhotoFailureIsolated ==
    /\ failure # "image"
    /\ \A k \in 1..files :
         results[k].kind \in {"error", "exception"} =>
            /\ results[k].items = <<>>
            /\ i >= k
    /\ pc \in {"loop", "await"} => allItems = AcceptedUpTo(i)
    /\ AfterLoop => /\ \A k \in 1..files : Attempted(k)
                    /\ allItems = AcceptedUpTo(files)
    /\ Saved => SavedRows = itemsToInsert(AcceptedUpTo(files))

(* C4 witness: photo 1 failed, photo 2 returned items, and the run ended   *)
(* with the items of photo 2 saved.                                        *)
C4_Witness ==
    /\ files = 2
    /\ pc = "done"
    /\ results[1].kind = "error"
    /\ results[2].kind = "ok"
    /\ Len(results[2].items) > 0
    /\ SavedRows = itemsToInsert(results[2].items)

(* C5, in the case most favourable to it (room detection mapped every     *)
(* photo, to rooms of detectedRooms only): every item returned for photo k *)
(* has a room that room detection mapped to photo k, and every saved row   *)
(* has a room of detectedRooms.                                            *)
C5_RoomClosure ==
    ( /\ DOMAIN roomMappings = 1..files
      /\ \A k \in 1..files :
           Range(roomMappings[k]) \subseteq Range(detectedRooms) )
      => /\ \A k \in 1..files :
              \A it \in Range(results[k].items) :
                 it.room \in Range(roomMappings[k])
         /\ \A row \in Range(SavedRows) : row.room \in Range(detectedRooms)

MalformedRoomPayload ==
    \/ roomVision.kind = "unparseable"
    \/ /\ roomVision.kind = "object"
       /\ ~roomVision.obj.hasRooms \/ ~roomVision.obj.hasMapping

(* C6: after a malformed room-detection payload, pass 1 ends without an    *)
(* error, with a non-empty detectedRooms and with every photo mapped to    *)
(* the fallback room.                                                      *)
C6_MalformedRoomsFallBack ==
    (AfterPassOne /\ MalformedRoomPayload) =>
        /\ ~roomError
        /\ Len(detectedRooms) > 0
        /\ \A k \in 1..files :
             /\ k \in DOMAIN roomMappings
             /\ roomMappings[k] = <<"Living Room">>

(* C7: the mapping room detection produced names only rooms of the         *)
(* detectedRooms returned with it and has an entry for each photo.         *)
C7_RoomMapClosed ==
    (AfterPassOne /\ roomVision.kind \in {"unparseable", "object"}) =>
        /\ DOMAIN roomMappings = 1..files
        /\ \A k \in DOMAIN roomMappings :
             Range(roomMappings[k]) \subseteq Range(detectedRooms)

(* C8: when the room-detection call itself failed, the run is not ended by *)
(* it: every photo is attempted, the extraction request is issued for      *)
(* every photo that could be read, and the items found are saved.          *)
C8_RoomFailureNotFatal ==
    roomError =>
        /\ failure # "rooms"
        /\ pc # "failed" \/ failure \in {"insert", "fetch"}
        /\ AfterLoop =>
             /\ \A k \in 1..files : Attempted(k)
             /\ {sent[p].imageNumber : p \in 1..Len(sent)}
                   = {k \in 1..files : results[k].kind # "exception"}
        /\ Saved => SavedRows = itemsToInsert(AcceptedUpTo(files))

(* C8 witness: room detection was rejected, and the run ended with a       *)
(* request issued for each photo and the items found saved.                *)
C8_Witness ==
    /\ roomError
    /\ roomVision.kind = "reject"
    /\ pc = "done"
    /\ files = 2
    /\ Len(sent) = 2
    /\ Len(SavedRows) >= 2

(* C9 as claimed: once the extraction of photo k has succeeded, its items  *)
(* are in the persisted collection before the request of a later photo is  *)
(* issued.                                                                 *)
C9_IncrementalPersistence ==
    \A p \in 1..Len(sent) :
      \A k \in 1..(sent[p].imageNumber - 1) :
         \A j \in 1..Len(results[k].items) :
            results[k].kind = "ok" =>
               \E row \in Range(dbItems) :
                  /\ row.name = results[k].items[j].name
                  /\ row.room = results[k].items[j].room
                  /\ row.ai_generated

(* C9 as amended: the items of a run are persisted by one insert after the *)
(* loop.  Until that insert the session's rows are those it had before the *)
(* run, whatever the photos answered; once it has succeeded the rows added *)
(* are the items of every successfully extracted photo, in order.          *)
C9_PersistedAfterLoop ==
    /\ RowsBeforeRun \in RowsBefore(currentSession)
    /\ ~Saved => dbItems \in RowsBefore(currentSession)
    /\ Saved =>
         LET accepted == AcceptedUpTo(files)
         IN /\ Len(SavedRows) = Len(accepted)
            /\ Len(accepted) > 0
            /\ \A j \in 1..Len(accepted) :
                 /\ SavedRows[j].name = accepted[j].name
                 /\ SavedRows[j].quantity = accepted[j].quantity
                 /\ SavedRows[j].room = accepted[j].room

(* C9 witness: photo 1 has answered items and the request of photo 2 is in *)
(* flight, with no row of the run persisted yet.                           *)
C9_Witness ==
    /\ inflight = {2}
    /\ results[1].kind = "ok"
    /\ Len(results[1].items) = 2
    /\ dbItems = <<>>

-----------------------------------------------------------------------------
(* Server: the text-to-JSON extraction of analyze-inventory/index.ts       *)
(*                                                                         *)
(* A text is a sequence of characters.  Two multi-character literals the   *)
(* code matches as a whole are one element each: FenceJson is "```json"    *)
(* and Fence is "```".  Quote is the double quote, Backslash the           *)
(* backslash, "1" a digit, "x" any other character of prose, " " white     *)
(* space.                                                                  *)

Quote == "q"
Backslash == "b"
FenceJson == "F"
Fence == "G"

MaxTextLen == 4

Alphabet == {"[", "]", "{", "}", Quote, Backslash, "1", ",", FenceJson, Fence}

Texts == UNION { [1..n -> Alphabet] : n \in 0..MaxTextLen }

(* The answers the prompt asks for: a text wrapped in one ```json fence.   *)
FencedTexts ==
    { <<FenceJson>> \o t \o <<Fence>> :
        t \in UNION { [1..n -> Alphabet \ {FenceJson, Fence}] : n \in 0..MaxTextLen } }

IsWs(c) == c = " "

RECURSIVE SkipWs(_, _)
SkipWs(t, p) ==
    IF p <= Len(t) /\ IsWs(t[p]) THEN SkipWs(t, p + 1) ELSE p

RECURSIVE SkipWsBack(_, _)
SkipWsBack(t, p) ==
    IF p >= 1 /\ IsWs(t[p]) THEN SkipWsBack(t, p - 1) ELSE p

(* String.prototype.trim                                                   *)
Trim(t) == SubSeq(t, SkipWs(t, 1), SkipWsBack(t, Len(t)))

(* String.prototype.indexOf(c), 1-based; 0 when c does not occur.          *)
IndexOf(t, c) ==
    IF \E p \in 1..Len(t) : t[p] = c
    THEN CHOOSE p \in 1..Len(t) : t[p] = c /\ \A r \in 1..(p - 1) : t[r] # c
    ELSE 0

(* JSON.parse, as a recogniser of JSON over the characters above.  Each    *)
(* *End operator takes the position of the first character and returns the *)
(* position after the last one, or 0 for a SyntaxError.                    *)
RECURSIVE StringEnd(_, _), ValueEnd(_, _), ElementsEnd(_, _), MembersEnd(_, _)

NumberEnd(t, p) ==
    CHOOSE e \in (p + 1)..(Len(t) + 1) :
        /\ \A r \in p..(e - 1) : t[r] = "1"
        /\ e = Len(t) + 1 \/ t[e] # "1"

(* p is the position after the opening quote.                              *)
StringEnd(t, p) ==
    IF p > Len(t) THEN 0
    ELSE IF t[p] = Quote THEN p + 1
    ELSE IF t[p] = Backslash
    THEN IF p + 1 <= Len(t) /\ t[p + 1] \in {Quote, Backslash}
         THEN StringEnd(t, p + 2) ELSE 0
    ELSE StringEnd(t, p + 1)

ValueEnd(t, p) ==
    IF p > Len(t) THEN 0
    ELSE IF t[p] = "1" THEN NumberEnd(t, p)
    ELSE IF t[p] = Quote THEN StringEnd(t, p + 1)
    ELSE IF t[p] = "["
    THEN LET q == SkipWs(t, p + 1)
         IN IF q <= Len(t) /\ t[q] = "]" THEN q + 1 ELSE ElementsEnd(t, q)
    ELSE IF t[p] = "{"
    THEN LET q == SkipWs(t, p + 1)
         IN IF q <= Len(t) /\ t[q] = "}" THEN q + 1 ELSE MembersEnd(t, q)
    ELSE 0

(* q is the position of an element; the array ends at the matching "]".    *)
ElementsEnd(t, q) ==
    LET e == ValueEnd(t, q)
        r == SkipWs(t, e)
    IN IF e = 0 \/ r > Len(t) THEN 0
       ELSE IF t[r] = "]" THEN r + 1
       ELSE IF t[r] = "," THEN ElementsEnd(t, SkipWs(t, r + 1))
       ELSE 0

(* q is the position of a member "key": value.                             *)
MembersEnd(t, q) ==
    LET k == IF q <= Len(t) /\ t[q] = Quote THEN StringEnd(t, q + 1) ELSE 0
        c == SkipWs(t, k)
        e == IF k = 0 \/ c > Len(t) \/ t[c] # ":" THEN 0
             ELSE ValueEnd(t, SkipWs(t, c + 1))
        r == SkipWs(t, e)
    IN IF e = 0 \/ r > Len(t) THEN 0
       ELSE IF t[r] = "}" THEN r + 1
       ELSE IF t[r] = "," THEN MembersEnd(t, SkipWs(t, r + 1))
       ELSE 0

RECURSIVE Elements(_, _)
(* The elements of a valid array, as texts; q is the position of the first *)
(* element or of the closing "]".                                          *)
Elements(t, q) ==
    IF t[q] = "]" THEN <<>>
    ELSE LET e == ValueEnd(t, q)
             r == SkipWs(t, e)
         IN <<SubSeq(t, q, e - 1)>>
               \o (IF t[r] = "," THEN Elements(t, SkipWs(t, r + 1)) ELSE <<>>)

(* JSON.parse(text): ok = FALSE for a SyntaxError; for an array, elems are *)
(* its elements.                                                           *)
JsonParse(text) ==
    LET s == SkipWs(text, 1)
        e == ValueEnd(text, s)
        ok == e # 0 /\ SkipWs(text, e) = Len(text) + 1
        isArray == ok /\ text[s] = "["
    IN [ok |-> ok, isArray |-> isArray,
        elems |-> IF isArray THEN Elements(text, SkipWs(text, s + 1)) ELSE <<>>]

(* analysisContent.match(/```json\s*([\s\S]*?)\s*```/): the capture group, *)
(* as [found, group].  The closing ``` is the first one after the opening  *)
(* ```json, be it a fence of its own or the start of another ```json.      *)
CodeBlockMatch(t) ==
    LET a == IndexOf(t, FenceJson)
        closes == {c \in (a + 1)..Len(t) : t[c] \in {Fence, FenceJson}}
    IN IF a = 0 \/ closes = {}
       THEN [found |-> FALSE, group |-> <<>>]
       ELSE LET c == CHOOSE x \in closes : \A y \in closes : x <= y
            IN [found |-> TRUE, group |-> Trim(SubSeq(t, a + 1, c - 1))]

(* blockContent.match(/(\[[\s\S]*?\])/): from the first "[" to the first   *)
(* "]" after it.                                                           *)
ArrayMatch(t) ==
    LET a == IndexOf(t, "[")
        ends == {c \in (a + 1)..Len(t) : t[c] = "]"}
    IN IF a = 0 \/ ends = {}
       THEN [found |-> FALSE, group |-> <<>>]
       ELSE LET c == CHOOSE x \in ends : \A y \in ends : x <= y
            IN [found |-> TRUE, group |-> SubSeq(t, a, c)]

RECURSIVE ScanArray(_, _, _)
(* Lines 216-245: the depth-tracking loop from position p on, with st =    *)
(* [depth, inString, escaped, arrayEnd]; returns st at the loop's end.     *)
ScanArray(t, p, st) ==
    IF p > Len(t) THEN st
    ELSE IF st.escaped
    THEN ScanArray(t, p + 1, [st EXCEPT !.escaped = FALSE])
    ELSE IF t[p] = Backslash
    THEN ScanArray(t, p + 1, [st EXCEPT !.escaped = TRUE])
    ELSE IF t[p] = Quote
    THEN ScanArray(t, p + 1, [st EXCEPT !.inString = ~st.inString])
    ELSE IF st.inString
    THEN ScanArray(t, p + 1, st)
    ELSE IF t[p] \in {"[", "{"}
    THEN ScanArray(t, p + 1, [st EXCEPT !.depth = st.depth + 1])
    ELSE IF t[p] \in {"]", "}"}
    THEN IF st.depth - 1 = 0 /\ t[p] = "]"
         THEN [st EXCEPT !.depth = 0, !.arrayEnd = p]
         ELSE ScanArray(t, p + 1, [st EXCEPT !.depth = st.depth - 1])
    ELSE ScanArray(t, p + 1, st)

(* Lines 207-252, strategy 2: the slice found by depth tracking, <<>> when *)
(* there is none.                                                          *)
DepthTrackedArray(t) ==
    LET arrayStart == IndexOf(t, "[")
    IN IF arrayStart = 0 THEN <<>>
       ELSE LET st == ScanArray(t, arrayStart,
                         [depth |-> 0, inString |-> FALSE, escaped |-> FALSE,
                          arrayEnd |-> arrayStart])
            IN IF st.depth = 0 THEN SubSeq(t, arrayStart, st.arrayEnd) ELSE <<>>

(* Lines 192-252: jsonContent after both strategies.                       *)
jsonContent(t) ==
    LET codeBlockMatch == CodeBlockMatch(t)
        arrayMatch == ArrayMatch(codeBlockMatch.group)
    IN IF codeBlockMatch.found /\ arrayMatch.found
       THEN arrayMatch.group
       ELSE DepthTrackedArray(t)

(* Lines 187-294: what serve answers for the text of the vision            *)
(* capability: [status, items].  An empty jsonContent and a SyntaxError    *)
(* both end in the catch (parseError); a parsed value that is no array     *)
(* throws to the outer catch, which answers status 500.                    *)
inventoryItems(t) ==
    LET json == Trim(jsonContent(t))
        parsed == JsonParse(json)
    IN IF json = <<>> \/ ~parsed.ok
       THEN ParseFallback
       ELSE IF parsed.isArray
       THEN [ok |-> TRUE, inventoryItems |-> parsed.elems]
       ELSE [ok |-> FALSE, inventoryItems |-> <<>>]

RECURSIVE ScanObject(_, _, _)
(* Lines 451-480: the depth-tracking loop of handleRoomDetection, with     *)
(* st = [depth, inString, escaped, objEnd].                                *)
ScanObject(t, p, st) ==
    IF p > Len(t) THEN st
    ELSE IF st.escaped
    THEN ScanObject(t, p + 1, [st EXCEPT !.escaped = FALSE])
    ELSE IF t[p] = Backslash
    THEN ScanObject(t, p + 1, [st EXCEPT !.escaped = TRUE])
    ELSE IF t[p] = Quote
    THEN ScanObject(t, p + 1, [st EXCEPT !.inString = ~st.inString])
    ELSE IF st.inString
    THEN ScanObject(t, p + 1, st)
    ELSE IF t[p] = "{"
    THEN ScanObject(t, p + 1, [st EXCEPT !.depth = st.depth + 1])
    ELSE IF t[p] = "}"
    THEN IF st.depth - 1 = 0
         THEN [st EXCEPT !.depth = 0, !.objEnd = p]
         ELSE ScanObject(t, p + 1, [st EXCEPT !.depth = st.depth - 1])
    ELSE ScanObject(t, p + 1, st)

(* Lines 436-487: jsonContent of handleRoomDetection: the whole code block *)
(* when there is one, else the object found by depth tracking.             *)
roomJsonContent(t) ==
    LET codeBlockMatch == CodeBlockMatch(t)
        objStart == IndexOf(t, "{")
    IN IF codeBlockMatch.found THEN codeBlockMatch.group
       ELSE IF objStart = 0 THEN <<>>
       ELSE LET st == ScanObject(t, objStart,
                         [depth |-> 0, inString |-> FALSE, escaped |-> FALSE,
                          objEnd |-> objStart])
            IN IF st.depth = 0 THEN SubSeq(t, objStart, st.objEnd) ELSE <<>>

(* Lines 432-512: which roomMapping handleRoomDetection answers for the    *)
(* text: the parsed JSON value as it is, or the fallback of the catch.     *)
roomMappingFrom(t) ==
    LET json == roomJsonContent(t)
    IN IF json = <<>> \/ ~JsonParse(json).ok THEN "fallback" ELSE "parsed"

Pending == [status |-> "pending", items |-> <<>>, roomMapping |-> "none"]

InitParse ==
    /\ files = 0
    /\ currentSession = FALSE
    /\ pc = "idle"
    /\ failure = ""
    /\ uploaded = {}
    /\ roomVision = NotAsked
    /\ roomError = FALSE
    /\ roomMappings = <<>>
    /\ detectedRooms = <<>>
    /\ i = 0
    /\ allItems = <<>>
    /\ inflight = {}
    /\ sent = <<>>
    /\ prompts = <<>>
    /\ results = <<>>
    /\ dbItems = <<>>
    /\ sessionTotals = [total_volume |-> 0, total_weight |-> 0]
    /\ analysisContent \in Texts \cup FencedTexts
    /\ mode \in {"item-analysis", "room-detection"}
    /\ response = Pending
    /\ ReviewIdle

(* serve in mode item-analysis from line 184 on: the items answered are    *)
(* the elements of the parsed array, one for one (itemsWithIds).           *)
AnswerItemAnalysis ==
    /\ mode = "item-analysis"
    /\ response = Pending
    /\ LET parsed == inventoryItems(analysisContent)
       IN response' = IF parsed.ok
                      THEN [status |-> "ok", items |-> parsed.inventoryItems,
                            roomMapping |-> "none"]
                      ELSE [status |-> "error", items |-> <<>>,
                            roomMapping |-> "none"]
    /\ UNCHANGED <<analysisContent, mode, pipelineVars, reviewVars>>

(* handleRoomDetection from line 429 on.                                   *)
AnswerRoomDetection ==
    /\ mode = "room-detection"
    /\ response = Pending
    /\ response' = [status |-> "ok", items |-> <<>>,
                    roomMapping |-> roomMappingFrom(analysisContent)]
    /\ UNCHANGED <<analysisContent, mode, pipelineVars, reviewVars>>

NextParse ==
    \/ AnswerItemAnalysis
    \/ AnswerRoomDetection

SpecParse == InitParse /\ [][NextParse]_vars

(* A slice of the text is a JSON array.                                    *)
HoldsJsonArray(t) ==
    \E a \in 1..Len(t) : \E b \in a..Len(t) : JsonParse(SubSeq(t, a, b)).isArray

(* C10: whatever the text, the item-analysis handler answers success; when *)
(* no JSON array can be taken from the text (no "[", nothing that closes   *)
(* it, or a slice JSON.parse rejects), the items answered are empty.       *)
C10_ParseFailureGivesEmptyItems ==
    (mode = "item-analysis" /\ response # Pending) =>
        /\ response.status = "ok"
        /\ (~HoldsJsonArray(analysisContent)
              \/ ~JsonParse(Trim(jsonContent(analysisContent))).ok)
             => response.items = <<>>

(* C10 witness: a text with an opening bracket and a closing one, whose    *)
(* slice JSON.parse rejects, was answered with success and no items.       *)
C10_Witness ==
    /\ mode = "item-analysis"
    /\ analysisContent = <<"[", "1", ",", "]">>
    /\ response.status = "ok"
    /\ response.items = <<>>


-----------------------------------------------------------------------------
(* C11: every item answered for photo k carries found_in_image = k, and    *)
(* every row saved by the run carries the index of the photo whose answer  *)
(* holds the item, whatever fields the vision capability put in the        *)
(* object.  The spread at index.ts:280-284 comes after found_in_image, so  *)
(* a found_in_image of the vision's object replaces the photo's index.     *)
C11_FoundInImageTagged ==
    /\ \A k \in 1..files :
         results[k].kind = "ok" =>
            \A j \in 1..Len(results[k].items) :
               results[k].items[j].found_in_image = k
    /\ \A row \in Range(SavedRows) :
         /\ row.found_in_image \in 1..files
         /\ \E it \in Range(results[row.found_in_image].items) :
               it.name = row.name

-----------------------------------------------------------------------------
(* The review pages and the totals.                                        *)
(*                                                                         *)
(*   owner, immediate : src/src/pages/Review.tsx                           *)
(*   owner, cached    : src/unnamed/part_002 (lines 1-989: debounced       *)
(*                      inputs, cachedTotals, Update & Save)               *)
(*   shared link      : src/src/pages/SharedInventory.tsx                  *)
(*   report           : src/supabase/functions/generate-inventory-pdf      *)
(*                                                                         *)
(* An item is [id, name, quantity, volume, weight, room, found_in_image,   *)
(* is_going]; found_in_image = 0 stands for "no such field".  A safety     *)
(* factor is in percent (20 = 0.2), and a total to which it was applied is *)
(* in hundredths of the unit of the sum: value * (1 + 0.2) is              *)
(* value * (100 + 20) hundredths.                                          *)

mockItems ==
    << [id |-> "1", name |-> "Queen Size Bed", quantity |-> 1, volume |-> 884,
        weight |-> 99, room |-> "Bedroom", found_in_image |-> 0,
        is_going |-> TRUE],
       [id |-> "2", name |-> "Dining Table", quantity |-> 1, volume |-> 635,
        weight |-> 77, room |-> "Dining Room", found_in_image |-> 0,
        is_going |-> TRUE],
       [id |-> "3", name |-> "Medium Boxes", quantity |-> 5, volume |-> 20,
        weight |-> 18, room |-> "Living Room", found_in_image |-> 0,
        is_going |-> TRUE],
       [id |-> "4", name |-> "Television (55 inch)", quantity |-> 1,
        volume |-> 283, weight |-> 33, room |-> "Living Room",
        found_in_image |-> 0, is_going |-> TRUE] >>

(* Rows a session may hold when a page is opened.                          *)
Armchair ==
    [id |-> "a", name |-> "Armchair", quantity |-> 3, volume |-> 20,
     weight |-> 10, room |-> "Living Room", found_in_image |-> 1,
     is_going |-> TRUE]

Stool ==
    [id |-> "b", name |-> "Stool", quantity |-> 2, volume |-> 10,
     weight |-> 5, room |-> "Kitchen", found_in_image |-> 2,
     is_going |-> TRUE]

StoredRows == { <<Armchair, Stool>> }

Ids(list) == {list[j].id : j \in 1..Len(list)}

(* { ...item, ...updates }                                                 *)
Merge(item, updates) ==
    [f \in DOMAIN item |-> IF f \in DOMAIN updates THEN updates[f] ELSE item[f]]

(* list.map(item => item.id === id ? { ...item, ...updates } : item)       *)
MapUpdate(list, id, updates) ==
    [j \in 1..Len(list) |->
        IF list[j].id = id THEN Merge(list[j], updates) ELSE list[j]]

(* list.filter(item => item.id !== id)                                     *)
FilterOut(list, id) == SelectSeq(list, LAMBDA it : it.id # id)

(* list.filter(item => item.is_going !== false)                            *)
goingItems(list) == SelectSeq(list, LAMBDA it : it.is_going # FALSE)

(* list.reduce((sum, item) => sum + (item.volume * item.quantity), 0)      *)
VolumeOf(list) ==
    SumOver([j \in 1..Len(list) |-> list[j].volume * list[j].quantity], Len(list))

WeightOf(list) ==
    SumOver([j \in 1..Len(list) |-> list[j].weight * list[j].quantity], Len(list))

QuantityOf(list) ==
    SumOver([j \in 1..Len(list) |-> list[j].quantity], Len(list))

(* Review.tsx:170-173, the totals the owner's page shows.                  *)
ReviewTotals(list) ==
    [totalVolume |-> VolumeOf(goingItems(list)),
     totalWeight |-> WeightOf(goingItems(list)),
     totalItems  |-> QuantityOf(goingItems(list))]

(* value * (1 + safetyFactor), in hundredths.                              *)
applyLoadingSafetyFactor(value, factor) == value * (100 + factor)

(* SharedInventory.tsx:287-292, the totals the shared view shows.          *)
SharedTotals(list, factor) ==
    [totalVolume |-> applyLoadingSafetyFactor(VolumeOf(list), factor),
     totalWeight |-> applyLoadingSafetyFactor(WeightOf(list), factor),
     totalItems  |-> QuantityOf(list)]

(* generate-inventory-pdf/index.ts:85-89, the totals the report prints.    *)
PdfTotals(list, factor) ==
    [totalVolume |-> applyLoadingSafetyFactor(VolumeOf(list), factor),
     totalWeight |-> applyLoadingSafetyFactor(WeightOf(list), factor),
     totalItems  |-> Len(list)]

(* recalculateAll, part_002:247-287: totals over every item of the list,   *)
(* and the list grouped by room (item.room || 'Unassigned').               *)
RoomKey(it) == IF it.room = "" THEN "Unassigned" ELSE it.room

roomGroups(list) ==
    [r \in {RoomKey(list[j]) : j \in 1..Len(list)} |->
        SelectSeq(list, LAMBDA it : RoomKey(it) = r)]

AccumulateTotals(list) ==
    [totalVolume |-> cachedTotals.totalVolume + VolumeOf(list),
     totalWeight |-> cachedTotals.totalWeight + WeightOf(list),
     totalItems  |-> cachedTotals.totalItems + QuantityOf(list),
     roomGroups  |-> roomGroups(list)]

recalculateAll(list) ==
    [totalVolume |-> VolumeOf(list),
     totalWeight |-> WeightOf(list),
     totalItems  |-> QuantityOf(list),
     roomGroups  |-> roomGroups(list)]

(* updateSessionTotals: Review.tsx:370-395 sums the rows with              *)
(* is_going !== false, part_002:463-487 sums every row.                    *)
updateSessionTotals(stored) ==
    LET counted == IF view = "Review" THEN goingItems(stored) ELSE stored
    IN [session EXCEPT !.total_volume = VolumeOf(counted),
                       !.total_weight = WeightOf(counted)]

(* The effect of part_002:290-294, which runs when items.length changed:   *)
(* the first non-empty list fills the cache.                               *)
InitialCalculation(before, after, cache) ==
    IF /\ view = "Cached"
       /\ Len(after) # Len(before)
       /\ Len(after) > 0
       /\ DOMAIN cache.roomGroups = {}
    THEN recalculateAll(after)
    ELSE cache

PipelineIdle ==
    /\ files = 0
    /\ currentSession = FALSE
    /\ pc = "idle"
    /\ failure = ""
    /\ uploaded = {}
    /\ roomVision = NotAsked
    /\ roomError = FALSE
    /\ roomMappings = <<>>
    /\ detectedRooms = <<>>
    /\ i = 0
    /\ allItems = <<>>
    /\ inflight = {}
    /\ sent = <<>>
    /\ prompts = <<>>
    /\ results = <<>>
    /\ dbItems = <<>>
    /\ sessionTotals = [total_volume |-> 0, total_weight |-> 0]

ParseIdle ==
    /\ analysisContent = <<>>
    /\ mode = "none"
    /\ response = [status |-> "none", items |-> <<>>, roomMapping |-> "none"]


(* The owner opens a review page.  Without ?session= there are no rows.    *)
InitReview ==
    /\ PipelineIdle
    /\ ParseIdle
    /\ SharedIdle
    /\ OwnerIdle
    /\ DebounceIdle
    /\ TokenIdle
    /\ view \in {"Review", "Cached"}
    /\ sessionId \in BOOLEAN
    /\ rows \in (IF sessionId THEN StoredRows ELSE {<<>>})
    /\ session = [total_volume |-> VolumeOf(rows), total_weight |-> WeightOf(rows),
                  safety_factor |-> DefaultSafetyFactor]
    /\ items = <<>>

ownerFrame == <<view, sessionId, token, accessToken, itemQueries, safetyFactor,
                newItem, activeAddFormRoom, report, returnedEarly, pipelineVars,
                parseVars, debounceVars, tokenVars>>

(* loadInventoryData, Review.tsx:94-158 and part_002:154-218: the rows of  *)
(* the session, or mockItems when there is no session or the load failed.  *)
loadInventoryData ==
    /\ view \in {"Review", "Cached"}
    /\ loadpc = "idle"
    /\ loadpc' = "loaded"
    /\ \/ /\ sessionId
          /\ items' = rows
       \/ items' = mockItems
    /\ cachedTotals' = InitialCalculation(items, items', cachedTotals)
    /\ recalcFresh' = (cachedTotals' # cachedTotals)
    /\ UNCHANGED <<rows, session, ops, hasUnsavedChanges, edited, totalsFresh,
                   ownerFrame>>

(* What the owner changes in an item: the Going switch (Review.tsx:653),   *)
(* and on the cached page also a quantity (part_002:771).                  *)
Updates == { [is_going |-> FALSE] }

LocalUpdates == { [is_going |-> FALSE], [quantity |-> 1] }

(* What an editor of a shared link changes in an item.                     *)
OtherUpdates == { [weight |-> 7] }

(* The item built by addNewItem from the add form (crypto.randomUUID() as  *)
(* id), and the id the database gives the inserted row.                    *)
AddedItem ==
    [id |-> "u1", name |-> "Crate", quantity |-> 1, volume |-> 40,
     weight |-> 20, room |-> "Kitchen", found_in_image |-> 0,
     is_going |-> TRUE]

InsertedId == "d1"

Op(kind, id, updates) ==
    [kind |-> kind, id |-> id, updates |-> updates, closure |-> items,
     stage |-> "persist"]

(* What the operation's persistence call does to the rows.  updateAndSave  *)
(* (part_002:334-346) updates every item of its list by id, with the six   *)
(* fields it sends; insert leaves the id to the database.                  *)
SavedFields(it) ==
    [name |-> it.name, quantity |-> it.quantity, volume |-> it.volume,
     weight |-> it.weight, room |-> it.room, is_going |-> it.is_going]

RECURSIVE UpdateAll(_, _, _)
UpdateAll(stored, list, n) ==
    IF n = 0 THEN stored
    ELSE MapUpdate(UpdateAll(stored, list, n - 1), list[n].id, SavedFields(list[n]))

Persisted(op) ==
    CASE op.kind = "update" -> MapUpdate(rows, op.id, op.updates)
      [] op.kind = "delete" -> FilterOut(rows, op.id)
      [] op.kind = "add"    -> Append(rows, [op.updates EXCEPT !.id = InsertedId])
      [] op.kind = "save"   -> UpdateAll(rows, op.closure, Len(op.closure))

(* What the operation's setItems does: it maps, filters or extends the     *)
(* items its closure holds (Review.tsx:188, 281, 325), which are those of  *)
(* the render in which the operation was started.                          *)
SetItems(op) ==
    CASE op.kind = "update" -> MapUpdate(op.closure, op.id, op.updates)
      [] op.kind = "delete" -> FilterOut(op.closure, op.id)
      [] op.kind = "add"    -> Append(op.closure, op.updates)
      [] op.kind = "save"   -> items

(* Start of updateItem, deleteItem, addNewItem (Review.tsx:175, 268, 290). *)
(* Without a session the handler has no await and     *)
(* sets the items at once.                                                 *)
StartOp(op) ==
    /\ loadpc = "loaded"
    /\ IF sessionId
       THEN /\ Cardinality(ops) < MaxOps
            /\ ops' = ops \cup {op}
            /\ UNCHANGED <<items, cachedTotals, recalcFresh>>
       ELSE /\ items' = SetItems(op)
            /\ cachedTotals' = InitialCalculation(items, items', cachedTotals)
            /\ recalcFresh' = IF cachedTotals' # cachedTotals THEN TRUE
                              ELSE IF items' # items THEN FALSE ELSE recalcFresh
            /\ UNCHANGED ops
    /\ edited' = IF op.kind = "update" THEN edited \cup {op.id} ELSE edited
    /\ UNCHANGED <<rows, session, hasUnsavedChanges, totalsFresh, loadpc, ownerFrame>>

updateItem(id, updates) ==
    /\ view = "Review"
    /\ id \in Ids(items)
    /\ StartOp(Op("update", id, updates))

deleteItem(id) ==
    /\ view = "Review"
    /\ id \in Ids(items)
    /\ StartOp(Op("delete", id, <<>>))

addNewItem ==
    /\ view = "Review"
    /\ AddedItem.id \notin Ids(items)
    /\ InsertedId \notin Ids(rows)
    /\ \A op \in ops : op.kind # "add"
    /\ StartOp(Op("add", AddedItem.id, AddedItem))

(* part_002:89-126 and 320-323: a debounced input that fired, the room     *)
(* dropdown and the Going switch change the list and mark it unsaved.      *)
updateItemLocally(id, updates) ==
    /\ view = "Cached"
    /\ loadpc = "loaded"
    /\ id \in Ids(items)
    /\ items' = MapUpdate(items, id, updates)
    /\ hasUnsavedChanges' = TRUE
    /\ edited' = edited \cup {id}
    /\ recalcFresh' = IF items' # items THEN FALSE ELSE recalcFresh
    /\ UNCHANGED <<rows, session, ops, cachedTotals, totalsFresh, loadpc, ownerFrame>>

(* updateAndSave up to its first await, part_002:326-348.  The button is   *)
(* rendered when sessionId && hasUnsavedChanges (line 574).                *)
updateAndSave ==
    /\ view = "Cached"
    /\ loadpc = "loaded"
    /\ sessionId
    /\ hasUnsavedChanges
    /\ Cardinality(ops) < MaxOps
    /\ cachedTotals' = recalculateAll(items)
    /\ recalcFresh' = TRUE
    /\ ops' = ops \cup {Op("save", "", <<>>)}
    /\ UNCHANGED <<items, rows, session, hasUnsavedChanges, edited, totalsFresh,
                   loadpc, ownerFrame>>

(* The database answers the operation's update, delete or insert.  An      *)
(* error of updateItem, deleteItem or addNewItem is thrown and ends the    *)
(* handler in its catch.                                                   *)
PersistOp(op) ==
    /\ op \in ops
    /\ op.stage = "persist"
    /\ \/ /\ rows' = Persisted(op)
          /\ ops' = (ops \ {op}) \cup {[op EXCEPT !.stage = "totals"]}
          /\ totalsFresh' = IF rows' # rows THEN FALSE ELSE totalsFresh
       \/ /\ op.kind # "save"
          /\ ops' = ops \ {op}
          /\ UNCHANGED <<rows, totalsFresh>>
    /\ UNCHANGED <<items, session, cachedTotals, hasUnsavedChanges, edited,
                   recalcFresh, loadpc, ownerFrame>>

(* await updateSessionTotals() and what follows it: setItems for the item  *)
(* operations, setHasUnsavedChanges(false) for updateAndSave.  A failure   *)
(* inside updateSessionTotals is caught there and changes nothing.         *)
FinishOp(op) ==
    /\ op \in ops
    /\ op.stage = "totals"
    /\ \/ /\ session' = updateSessionTotals(rows)
          /\ totalsFresh' = TRUE
       \/ UNCHANGED <<session, totalsFresh>>
    /\ items' = SetItems(op)
    /\ hasUnsavedChanges' = IF op.kind = "save" THEN FALSE ELSE hasUnsavedChanges
    /\ cachedTotals' = InitialCalculation(items, items', cachedTotals)
    /\ recalcFresh' = IF cachedTotals' # cachedTotals THEN TRUE
                      ELSE IF items' # items THEN FALSE ELSE recalcFresh
    /\ ops' = ops \ {op}
    /\ UNCHANGED <<rows, edited, loadpc, ownerFrame>>

(* An editor of a shared link with edit access updates a row               *)
(* (SharedInventory.tsx:197-200); that page writes no session totals.  The *)
(* second editor is followed next to the cached page.                      *)
OtherEditorUpdate(id, updates) ==
    /\ view = "Cached"
    /\ sessionId
    /\ id \in Ids(rows)
    /\ rows' = MapUpdate(rows, id, updates)
    /\ totalsFresh' = IF rows' # rows THEN FALSE ELSE totalsFresh
    /\ UNCHANGED <<items, session, ops, cachedTotals, hasUnsavedChanges, edited,
                   recalcFresh, loadpc, ownerFrame>>

(* The items the editors touch: the two stored ones, the sample boxes and  *)
(* the item added by hand.                                                 *)
ItemIds == {"a", "b", "3", "u1"}

DeletedIds == {"b"}

OtherIds == {"b"}

NextReview ==
    \/ loadInventoryData
    \/ \E id \in ItemIds, updates \in Updates : updateItem(id, updates)
    \/ \E id \in DeletedIds : deleteItem(id)
    \/ addNewItem
    \/ \E id \in ItemIds, updates \in LocalUpdates : updateItemLocally(id, updates)
    \/ updateAndSave
    \/ \E op \in ops : PersistOp(op)
    \/ \E op \in ops : FinishOp(op)
    \/ \E id \in OtherIds, updates \in OtherUpdates : OtherEditorUpdate(id, updates)

SpecReview == InitReview /\ [][NextReview]_vars

-----------------------------------------------------------------------------
(* The box table of the prompt, index.ts:71-82: per-box volume and weight. *)
BoxPairs == { <<15, 15>>, <<30, 25>>, <<45, 30>>, <<60, 35>> }

BoxNames == {"Small Boxes", "Medium Boxes", "Large Boxes", "Extra-Large Boxes"}

(* C12: every box-type item the application holds, in the review list or   *)
(* in the rows of the session, has one of the four per-box (volume,        *)
(* weight) pairs; only its quantity varies.  The built-in sample list      *)
(* holds "Medium Boxes" with 2.0 cu ft and 18 lb.                          *)
C12_BoxPairsFixed ==
    \A it \in Range(items) \cup Range(rows) :
       it.name \in BoxNames => <<it.volume, it.weight>> \in BoxPairs

(* C15: a totals recompute that runs when the items did not change since   *)
(* the last recompute yields the totals that recompute yielded: as long as *)
(* the list is unchanged since recalculateAll ran, no step changes the     *)
(* cached totals, and as long as the rows are unchanged since              *)
(* updateSessionTotals ran, no step changes the session's totals.          *)
C15_RecomputeIdempotent ==
    [][ /\ (recalcFresh /\ recalcFresh') => cachedTotals' = cachedTotals
        /\ (totalsFresh /\ totalsFresh') => session' = session ]_vars

(* C15 witness: Update & Save was clicked twice on the same list, so       *)
(* recalculateAll ran twice with no item change in between; the first save *)
(* has written its rows, the second has not.                               *)
C15_Witness ==
    /\ view = "Cached"
    /\ recalcFresh
    /\ cachedTotals.totalItems > 0
    /\ \E o1 \in ops, o2 \in ops :
          /\ o1.kind = "save" /\ o2.kind = "save"
          /\ o1.stage = "totals" /\ o2.stage = "persist"
          /\ o1.closure = items /\ o2.closure = items

(* C16, on the page with cached totals: a committed edit of an item marks  *)
(* the cache stale and leaves the cached totals as they are; the cached    *)
(* totals change only by a recompute of the current list; and when         *)
(* updateAndSave completes, the cached totals are those of the current     *)
(* list and the stale mark is cleared.  An edit committed while the save   *)
(* awaits the database is in the list when the save completes: the mark    *)
(* is cleared over totals that are not those of the list.                  *)
SaveCompletes ==
    \E op \in ops : op.kind = "save" /\ op.stage = "totals" /\ ops' = ops \ {op}

C16_CacheReconciledBySave ==
    [][ view = "Cached" =>
          /\ (loadpc = "loaded" /\ ops' = ops /\ items' # items) =>
                /\ hasUnsavedChanges'
                /\ cachedTotals' = cachedTotals
          /\ cachedTotals' # cachedTotals => cachedTotals' = recalculateAll(items')
          /\ SaveCompletes =>
                /\ ~hasUnsavedChanges'
                /\ cachedTotals' = recalculateAll(items') ]_vars

(* C17: an item added by hand is going when it enters the list, and        *)
(* switching an item to not going keeps it: the step in which the switch   *)
(* reaches the rows, and the step in which it reaches the list, change     *)
(* is_going of that item and nothing else, of no item.  The list part      *)
(* fails when the switch overlaps another operation: setItems maps the     *)
(* items of the render in which the switch was started.                    *)
SwitchedOff(before, after, id) ==
    /\ Len(after) = Len(before)
    /\ \A j \in 1..Len(before) :
          after[j] = IF before[j].id = id
                     THEN [before[j] EXCEPT !.is_going = FALSE]
                     ELSE before[j]

C17_NotGoingKeepsItem ==
    [][ \A op \in ops :
          /\ (op.kind = "add" /\ op.stage = "totals" /\ ops' = ops \ {op}) =>
                \E it \in Range(items') : it.id = op.id /\ it.is_going
          /\ (op.kind = "update" /\ op.updates = [is_going |-> FALSE]) =>
                /\ (op.stage = "persist"
                      /\ ops' = (ops \ {op}) \cup {[op EXCEPT !.stage = "totals"]})
                   => SwitchedOff(rows, rows', op.id)
                /\ (op.stage = "totals" /\ ops' = ops \ {op})
                   => SwitchedOff(items, items', op.id) ]_vars

(* C20: edits are last-write-wins item by item: the step in which a save   *)
(* of this page (updateItem, updateAndSave) reaches the rows leaves every  *)
(* row of an item this page did not edit as it is, so an edit another      *)
(* editor saved to another item stays.  updateAndSave writes every item of *)
(* its list, with the values the page loaded.                              *)
C20_SaveTouchesOnlyEdited ==
    [][ \A op \in ops :
          ( /\ op.kind \in {"update", "save"}
            /\ op.stage = "persist"
            /\ ops' = (ops \ {op}) \cup {[op EXCEPT !.stage = "totals"]} )
          => /\ Len(rows') = Len(rows)
             /\ \A j \in 1..Len(rows) :
                   rows[j].id \notin edited => rows'[j] = rows[j] ]_vars

-----------------------------------------------------------------------------
(* The shared view, SharedInventory.tsx, opened with /shared/:token.       *)

(* Rows of inventory_access_tokens.                                        *)
TokenTable ==
    { [token |-> "tv", is_active |-> TRUE,  access_level |-> "view"],
      [token |-> "te", is_active |-> TRUE,  access_level |-> "edit"],
      [token |-> "ti", is_active |-> FALSE, access_level |-> "edit"] }

(* The :token of the URL: none, one no row has, or one of the table.       *)
UrlTokens == {"", "tx", "tv", "te", "ti"}

FindAnyToken(t) == {r \in TokenTable : r.token = t}

(* Lines 126-131: .eq("token", token).eq("is_active", true).single(); a    *)
(* row of the table is active until it is revoked.                         *)
FindToken(t) == {r \in TokenTable : r.token = t /\ r.is_active /\ r.token \notin revoked}

(* .order("room").order("name"), lines 154-155: the order of the strings   *)
(* the rows hold.                                                          *)
Collation == <<"Armchair", "Crate", "Kitchen", "Living Room", "Stool">>

Rank(str) == CHOOSE n \in 1..Len(Collation) : Collation[n] = str

Precedes(x, y) ==
    \/ Rank(x.room) < Rank(y.room)
    \/ x.room = y.room /\ Rank(x.name) <= Rank(y.name)

RECURSIVE InsertOrdered(_, _)
InsertOrdered(sorted, x) ==
    IF sorted = <<>> THEN <<x>>
    ELSE IF Precedes(x, Head(sorted)) THEN <<x>> \o sorted
    ELSE <<Head(sorted)>> \o InsertOrdered(Tail(sorted), x)

RECURSIVE OrderByRoomName(_, _)
OrderByRoomName(list, n) ==
    IF n = 0 THEN <<>> ELSE InsertOrdered(OrderByRoomName(list, n - 1), list[n])

AlwaysEdit == TRUE

(* Line 111.                                                               *)
canEdit == accessToken.access_level = "edit"

(* Two of the factors of the dropdown, line 550, in percent.               *)
SafetyFactors == {0, 20}

InitShared ==
    /\ PipelineIdle
    /\ ParseIdle
    /\ OwnerIdle
    /\ DebounceIdle
    /\ TokenIdle
    /\ view = "Shared"
    /\ sessionId = TRUE
    /\ rows \in StoredRows
    /\ session = [total_volume |-> VolumeOf(rows), total_weight |-> WeightOf(rows),
                  safety_factor |-> DefaultSafetyFactor]
    /\ items = <<>>
    /\ token \in UrlTokens
    /\ accessToken = NoToken
    /\ loadpc = "idle"
    /\ itemQueries = 0
    /\ safetyFactor = DefaultSafetyFactor
    /\ newItem = EmptyForm
    /\ activeAddFormRoom = "null"
    /\ report = NoReport
    /\ returnedEarly = FALSE

sharedFrame == <<view, sessionId, token, cachedTotals, hasUnsavedChanges, edited,
                 recalcFresh, totalsFresh, pipelineVars, parseVars, debounceVars,
                 revoked, visitor>>

(* loadSharedData up to the answer of the token query, lines 115-138.      *)
ValidateToken ==
    /\ view = "Shared"
    /\ loadpc = "idle"
    /\ IF token # "" /\ FindToken(token) # {}
       THEN /\ accessToken' = CHOOSE r \in FindToken(token) : TRUE
            /\ accessData' = accessCount
            /\ loadpc' = "track"
       ELSE /\ loadpc' = "rejected"
            /\ UNCHANGED <<accessToken, accessData>>
    /\ UNCHANGED <<items, rows, session, ops, itemQueries, safetyFactor, newItem,
                   activeAddFormRoom, report, returnedEarly, accessCount,
                   sharedFrame>>

(* Lines 140-147: the access is counted, from the count the load read.     *)
TrackAccess ==
    /\ view = "Shared"
    /\ loadpc = "track"
    /\ loadpc' = "items"
    /\ accessCount' = accessData + 1
    /\ UNCHANGED <<items, rows, session, ops, accessToken, itemQueries, safetyFactor,
                   newItem, activeAddFormRoom, report, returnedEarly, accessData,
                   sharedFrame>>

(* Lines 149-179: the items of the token's session are selected; an error  *)
(* of the select ends the load in the catch.                               *)
LoadItems ==
    /\ view = "Shared"
    /\ loadpc = "items"
    /\ itemQueries' = itemQueries + 1
    /\ \/ /\ items' = OrderByRoomName(rows, Len(rows))
          /\ safetyFactor' = session.safety_factor
          /\ loadpc' = "loaded"
       \/ /\ loadpc' = "rejected"
          /\ UNCHANGED <<items, safetyFactor>>
    /\ UNCHANGED <<rows, session, ops, accessToken, newItem, activeAddFormRoom,
                   report, returnedEarly, accessCount, accessData,
                   sharedFrame>>

(* The add form: its button and its inputs are rendered only when         *)
(* canEdit (lines 873, 887); openAddFormForRoom, lines 326-336, and the    *)
(* name input, line 904.                                                   *)
openAddFormForRoom(room) ==
    /\ view = "Shared"
    /\ loadpc = "loaded"
    /\ canEdit
    /\ \E it \in Range(items) : it.room = room
    /\ activeAddFormRoom' = room
    /\ newItem' = [EmptyForm EXCEPT !.room = room]
    /\ UNCHANGED <<items, rows, session, ops, accessToken, loadpc, itemQueries,
                   safetyFactor, report, returnedEarly, accessCount, accessData,
                   sharedFrame>>

TypeItemName(name) ==
    /\ view = "Shared"
    /\ loadpc = "loaded"
    /\ canEdit
    /\ activeAddFormRoom # "null"
    /\ newItem' = [newItem EXCEPT !.name = name]
    /\ UNCHANGED <<items, rows, session, ops, accessToken, loadpc, itemQueries,
                   safetyFactor, activeAddFormRoom, report, returnedEarly,
                   accessCount, accessData,
                   sharedFrame>>

(* The item addNewItem builds from the form, lines 243-251.                *)
FormItem ==
    [id |-> AddedItem.id, name |-> newItem.name, quantity |-> newItem.quantity,
     volume |-> newItem.volume, weight |-> newItem.weight,
     room |-> IF newItem.room # "" THEN newItem.room ELSE activeAddFormRoom,
     found_in_image |-> 0, is_going |-> newItem.is_going # FALSE]

(* updateItem, deleteItem (lines 193-234) and addNewItem (lines 236-285)   *)
(* up to their first await.  updateItem and deleteItem return at once      *)
(* without edit access, addNewItem returns at once without a name.  Only   *)
(* addNewItem reads the items it closed over.                              *)
SharedStart(op, allowed) ==
    /\ view = "Shared"
    /\ loadpc = "loaded"
    /\ IF allowed
       THEN /\ Cardinality(ops) < MaxOps
            /\ ops' = ops \cup {op}
            /\ UNCHANGED returnedEarly
       ELSE /\ returnedEarly' = TRUE
            /\ UNCHANGED ops
    /\ UNCHANGED <<items, rows, session, accessToken, loadpc, itemQueries,
                   safetyFactor, newItem, activeAddFormRoom, report, accessCount, accessData,
                   sharedFrame>>

SharedUpdateItem(id, updates) ==
    /\ id \in Ids(items)
    /\ SharedStart([Op("update", id, updates) EXCEPT !.closure = <<>>], canEdit)

SharedDeleteItem(id) ==
    /\ id \in Ids(items)
    /\ SharedStart([Op("delete", id, <<>>) EXCEPT !.closure = <<>>], canEdit)

SharedAddNewItem ==
    /\ AddedItem.id \notin Ids(items)
    /\ InsertedId \notin Ids(rows)
    /\ \A op \in ops : op.kind # "add"
    /\ SharedStart(Op("add", AddedItem.id, FormItem), newItem.name # "")

(* The database answers; an error is thrown and caught (lines 202, 226,    *)
(* 267).                                                                   *)
SharedPersist(op) ==
    /\ view = "Shared"
    /\ op \in ops
    /\ op.stage = "persist"
    /\ \/ /\ rows' = Persisted(op)
          /\ ops' = (ops \ {op}) \cup {[op EXCEPT !.stage = "set"]}
       \/ /\ ops' = ops \ {op}
          /\ UNCHANGED rows
    /\ UNCHANGED <<items, session, accessToken, loadpc, itemQueries, safetyFactor,
                   newItem, activeAddFormRoom, report, returnedEarly, accessCount, accessData,
                   sharedFrame>>

(* setItems(prevItems => ...) of updateItem and deleteItem works on the    *)
(* current list (lines 204, 228); addNewItem extends the list it closed    *)
(* over and resets the form (lines 270-279).                               *)
SharedFinish(op) ==
    /\ view = "Shared"
    /\ op \in ops
    /\ op.stage = "set"
    /\ items' = CASE op.kind = "update" -> MapUpdate(items, op.id, op.updates)
                  [] op.kind = "delete" -> FilterOut(items, op.id)
                  [] op.kind = "add"    -> Append(op.closure, op.updates)
    /\ IF op.kind = "add"
       THEN newItem' = EmptyForm /\ activeAddFormRoom' = "null"
       ELSE UNCHANGED <<newItem, activeAddFormRoom>>
    /\ ops' = ops \ {op}
    /\ UNCHANGED <<rows, session, accessToken, loadpc, itemQueries, safetyFactor,
                   report, returnedEarly, accessCount, accessData,
                   sharedFrame>>

(* updateSafetyFactor, lines 350-367.                                      *)
updateSafetyFactor(newSafetyFactor) ==
    /\ view = "Shared"
    /\ loadpc = "loaded"
    /\ safetyFactor' = newSafetyFactor
    /\ session' = [session EXCEPT !.safety_factor = newSafetyFactor]
    /\ UNCHANGED <<items, rows, ops, accessToken, loadpc, itemQueries, newItem,
                   activeAddFormRoom, report, returnedEarly, accessCount, accessData,
                   sharedFrame>>

(* handleGeneratePdf, lines 369-389, and the function it calls: the report *)
(* is computed from the rows of the session and the factor passed.         *)
handleGeneratePdf ==
    /\ view = "Shared"
    /\ loadpc = "loaded"
    /\ report' = [printed  |-> TRUE,
                  pdf      |-> PdfTotals(rows, safetyFactor),
                  onScreen |-> SharedTotals(items, safetyFactor),
                  inSync   |-> items = OrderByRoomName(rows, Len(rows))]
    /\ UNCHANGED <<items, rows, session, ops, accessToken, loadpc, itemQueries,
                   safetyFactor, newItem, activeAddFormRoom, returnedEarly,
                   accessCount, accessData,
                   sharedFrame>>

NextShared ==
    \/ ValidateToken
    \/ TrackAccess
    \/ LoadItems
    \/ \E room \in {"Kitchen", "Living Room"} : openAddFormForRoom(room)
    \/ TypeItemName("Crate")
    \/ \E id \in ItemIds, updates \in Updates : SharedUpdateItem(id, updates)
    \/ \E id \in DeletedIds : SharedDeleteItem(id)
    \/ SharedAddNewItem
    \/ \E op \in ops : SharedPersist(op)
    \/ \E op \in ops : SharedFinish(op)
    \/ \E factor \in SafetyFactors : updateSafetyFactor(factor)

SpecShared == InitShared /\ [][NextShared]_vars

(* The shared view asked for the report: the load, the Going switch, the   *)
(* safety factor and the report.                                           *)
NextReport ==
    \/ ValidateToken
    \/ TrackAccess
    \/ LoadItems
    \/ \E id \in ItemIds, updates \in Updates : SharedUpdateItem(id, updates)
    \/ \E op \in ops : SharedPersist(op)
    \/ \E op \in ops : SharedFinish(op)
    \/ \E factor \in SafetyFactors : updateSafetyFactor(factor)
    \/ handleGeneratePdf

SpecReport == InitShared /\ [][NextReport]_vars

(* C13: for every item list and safety factor, each place that computes    *)
(* the totals of a session (the owner's page, the shared view, the report) *)
(* yields totalItems = the sum of quantity over the items that are going,  *)
(* totalVolume = (1 + safetyFactor) * the sum of volume * quantity over    *)
(* them and totalWeight likewise; an item that is not going adds nothing.  *)
(* Volumes and weights are compared in hundredths.                         *)
C13_TotalsFormula ==
    LET going(list) == SelectSeq(list, LAMBDA it : it.is_going # FALSE)
        sum(f, list) == SumOver([j \in 1..Len(list) |-> f[j]], Len(list))
        stated(list) ==
            LET g == going(list)
            IN [totalItems  |-> sum([j \in 1..Len(g) |-> g[j].quantity], g),
                totalVolume |-> (100 + safetyFactor) *
                    sum([j \in 1..Len(g) |-> g[j].volume * g[j].quantity], g),
                totalWeight |-> (100 + safetyFactor) *
                    sum([j \in 1..Len(g) |-> g[j].weight * g[j].quantity], g)]
    IN loadpc = "loaded" =>
          /\ SharedTotals(items, safetyFactor) = stated(items)
          /\ PdfTotals(rows, safetyFactor) = stated(rows)
          /\ ReviewTotals(items).totalItems = stated(items).totalItems
          /\ 100 * ReviewTotals(items).totalVolume = stated(items).totalVolume
          /\ 100 * ReviewTotals(items).totalWeight = stated(items).totalWeight

(* C14: when the shared view asks for the report while its list shows the  *)
(* persisted items, the item count, total volume and total weight printed  *)
(* in the report equal the ones the view displays.                         *)
C14_ReportMatchesScreen ==
    (report.printed /\ report.inSync) => report.pdf = report.onScreen

(* C18: with a token that is missing, unknown or inactive no item query is *)
(* issued and the view's list stays empty; item queries are issued only    *)
(* once an active token record with the token of the URL has been found.   *)
C18_InvalidTokenRejected ==
    /\ (~ \E r \in TokenTable : r.token = token /\ r.is_active) =>
          /\ itemQueries = 0
          /\ items = <<>>
          /\ loadpc # "loaded"
    /\ (itemQueries > 0 \/ items # <<>>) =>
          /\ accessToken \in TokenTable
          /\ accessToken.token = token
          /\ accessToken.is_active

(* An inactive token has been presented and the load has been rejected.    *)
C18_Witness ==
    /\ token = "ti"
    /\ loadpc = "rejected"
    /\ itemQueries = 0

(* C19: once the shared view is loaded, a step that changes the persisted  *)
(* rows or the list in memory is taken with a token whose access level is  *)
(* edit; with a view token updateItem, deleteItem and addNewItem leave     *)
(* both as they are.                                                       *)
C19_ViewTokenCannotMutate ==
    [][(loadpc = "loaded" /\ (rows' # rows \/ items' # items))
          => accessToken.access_level = "edit"]_vars

(* A view token is loaded, shows items, and a mutation entry point has     *)
(* been invoked and has returned at once.                                  *)
C19_Witness ==
    /\ token = "tv"
    /\ accessToken.access_level = "view"
    /\ loadpc = "loaded"
    /\ items # <<>>
    /\ returnedEarly

-----------------------------------------------------------------------------
(* C21: when the text answered by the vision capability is one well-formed *)
(* JSON array wrapped in a ```json fence, or one well-formed JSON array    *)
(* with prose (no bracket, brace, quote or fence) before and after it, the *)
(* item-analysis handler answers the elements of that array, in order,     *)
(* whatever brackets the elements hold.                                    *)
C21_ArrayExtracted ==
    LET t == analysisContent
        prose(u) == \A p \in 1..Len(u) : u[p] \in {"1", ","}
        holds(a, b) ==
            /\ JsonParse(SubSeq(t, a, b)).isArray
            /\ \/ /\ a = 2 /\ b = Len(t) - 1
                  /\ t[1] = FenceJson /\ t[Len(t)] = Fence
               \/ /\ prose(SubSeq(t, 1, a - 1))
                  /\ prose(SubSeq(t, b + 1, Len(t)))
    IN (mode = "item-analysis" /\ response # Pending) =>
          \A a \in 1..Len(t) : \A b \in a..Len(t) :
              holds(a, b) =>
                  /\ response.status = "ok"
                  /\ response.items = JsonParse(SubSeq(t, a, b)).elems

-----------------------------------------------------------------------------
(* The debounced inputs of the page with cached totals, part_002:86-151.   *)
(* Time is counted in quarters of a second.                                *)

(* setTimeout(..., 500), part_002:119.                                     *)
DebounceDelay == 2

MaxTime == 5

MaxKeystrokes == 3

(* The inputs followed (part_002:771, 790) and what is typed into them,    *)
(* as the text of the input after the keystroke.                           *)
Fields == {"quantity", "weight"}

InputKeys == {<<"a", "quantity">>, <<"a", "weight">>, <<"b", "quantity">>}

Typed == {<<>>, <<"0">>, <<"4">>}

NaN == [nan |-> TRUE, n |-> 0]

DigitValue(c) == CHOOSE d \in 0..9 : <<"0", "1", "2", "3", "4", "5", "6", "7", "8", "9">>[d + 1] = c

RECURSIVE DecimalValue(_, _)
DecimalValue(text, n) ==
    IF n = 0 THEN 0 ELSE 10 * DecimalValue(text, n - 1) + DigitValue(text[n])

(* parseInt(value) and parseFloat(value) of a text of digits: NaN for the  *)
(* empty text.                                                             *)
parseNumber(text) ==
    IF text = <<>> THEN NaN ELSE [nan |-> FALSE, n |-> DecimalValue(text, Len(text))]

(* parseInt(value) || 1 for quantity, parseFloat(value) || 0 otherwise     *)
(* (part_002:102-106): NaN and 0 are falsy.                                *)
numValue(field, value) ==
    LET parsed == parseNumber(value)
    IN IF parsed.nan \/ parsed.n = 0
       THEN (IF field = "quantity" THEN 1 ELSE 0)
       ELSE parsed.n

Put(f, k, v) == [x \in DOMAIN f \cup {k} |-> IF x = k THEN v ELSE f[x]]

Remove(f, k) == [x \in DOMAIN f \ {k} |-> f[x]]

OneTimerForAll(itemId, field) == <<"", "">>

(* `${itemId}-${field}`, the key of debounceTimers and editingValues.      *)
TimerKey(itemId, field) == <<itemId, field>>

NoStroke == [at |-> 0, value |-> <<>>, open |-> FALSE, updates |-> 0, count |-> 0]

StrokeOf(key) == IF key \in DOMAIN strokes THEN strokes[key] ELSE NoStroke

Keystrokes == LET keys == DOMAIN strokes
              IN IF keys = {} THEN 0
                 ELSE LET order == CHOOSE f \in [1..Cardinality(keys) -> keys] :
                                       \A x \in keys : \E j \in DOMAIN f : f[j] = x
                      IN SumOver([j \in DOMAIN order |-> strokes[order[j]].count],
                                 Cardinality(keys))

debounceFrame == <<view, sessionId, rows, session, ops, cachedTotals, edited,
                   totalsFresh, loadpc, sharedVars, pipelineVars, parseVars,
                   tokenVars>>

(* handleDebouncedInputChange, part_002:90-120, up to setTimeout: the      *)
(* text is kept in editingValues, the timer of the key is cleared and a    *)
(* new one is set, which closes over itemId, field and value.              *)
handleDebouncedInputChange(itemId, field, value) ==
    /\ view = "Cached"
    /\ loadpc = "loaded"
    /\ itemId \in Ids(items)
    /\ Keystrokes < MaxKeystrokes
    /\ editingValues' = Put(editingValues, <<itemId, field>>, value)
    /\ debounceTimers' = Put(debounceTimers, TimerKey(itemId, field),
                             [deadline |-> now + DebounceDelay, itemId |-> itemId,
                              field |-> field, value |-> value])
    /\ strokes' = LET last == StrokeOf(<<itemId, field>>)
                  IN Put(strokes, <<itemId, field>>,
                         [at |-> now, value |-> value, open |-> TRUE,
                          updates |-> IF last.open THEN last.updates ELSE 0,
                          count |-> last.count + 1])
    /\ UNCHANGED <<items, hasUnsavedChanges, recalcFresh, now, debounceFrame>>

(* The callback of the timer, part_002:100-118, run when the timer is due. *)
DebounceFires(key) ==
    /\ view = "Cached"
    /\ key \in DOMAIN debounceTimers
    /\ debounceTimers[key].deadline <= now
    /\ LET timer == debounceTimers[key]
           n == numValue(timer.field, timer.value)
           last == StrokeOf(<<timer.itemId, timer.field>>)
       IN /\ items' = MapUpdate(items, timer.itemId,
                                IF timer.field = "quantity"
                                THEN [quantity |-> n] ELSE [weight |-> n])
          /\ editingValues' = Remove(editingValues, <<timer.itemId, timer.field>>)
          /\ strokes' = Put(strokes, <<timer.itemId, timer.field>>,
                            [last EXCEPT !.open = FALSE, !.updates = last.updates + 1])
    /\ hasUnsavedChanges' = TRUE
    /\ recalcFresh' = IF items' # items THEN FALSE ELSE recalcFresh
    /\ debounceTimers' = Remove(debounceTimers, key)
    /\ UNCHANGED <<now, debounceFrame>>

(* A quarter of a second passes; a timer that is due runs first.             *)
Tick ==
    /\ view = "Cached"
    /\ loadpc = "loaded"
    /\ now < MaxTime
    /\ \A key \in DOMAIN debounceTimers : debounceTimers[key].deadline > now
    /\ now' = now + 1
    /\ UNCHANGED <<items, hasUnsavedChanges, recalcFresh, debounceTimers,
                   editingValues, strokes, debounceFrame>>

(* handleRoomChange, part_002:123-126: the list is updated at once.        *)
handleRoomChange(itemId, room) ==
    /\ view = "Cached"
    /\ loadpc = "loaded"
    /\ itemId \in Ids(items)
    /\ items' = MapUpdate(items, itemId, [room |-> room])
    /\ hasUnsavedChanges' = TRUE
    /\ recalcFresh' = IF items' # items THEN FALSE ELSE recalcFresh
    /\ UNCHANGED <<now, debounceTimers, editingValues, strokes, debounceFrame>>

(* The page is left: the cleanup of part_002:553-560 clears every timer.   *)
Unmount ==
    /\ view = "Cached"
    /\ loadpc = "loaded"
    /\ view' = "none"
    /\ debounceTimers' = <<>>
    /\ UNCHANGED <<items, hasUnsavedChanges, recalcFresh, now, editingValues, strokes,
                   sessionId, rows, session, ops, cachedTotals, edited,
                   totalsFresh, loadpc, sharedVars, pipelineVars, parseVars,
                   tokenVars>>

InitDebounce ==
    /\ InitReview
    /\ view = "Cached"
    /\ sessionId

NextDebounce ==
    \/ loadInventoryData
    \/ \E key \in InputKeys, value \in Typed :
          handleDebouncedInputChange(key[1], key[2], value)
    \/ \E key \in DOMAIN debounceTimers : DebounceFires(key)
    \/ Tick
    \/ handleRoomChange("a", "Kitchen")
    \/ Unmount

SpecDebounce == InitDebounce /\ [][NextDebounce]_vars

-----------------------------------------------------------------------------
(* C23: whenever no operation of the page is in flight, total_volume and   *)
(* total_weight of the session row equal the sums of volume * quantity and *)
(* weight * quantity over the session's rows that are going.               *)
C23_TotalsDerivable ==
    (sessionId /\ loadpc = "loaded" /\ ops = {}) =>
        /\ session.total_volume = VolumeOf(SelectSeq(rows, LAMBDA r : r.is_going # FALSE))
        /\ session.total_weight = WeightOf(SelectSeq(rows, LAMBDA r : r.is_going # FALSE))

(* C24: on the owner's page, when no operation is in flight, the item that *)
(* addNewItem put in the list and the record it inserted hold the same     *)
(* name, quantity, volume, weight, room and is_going: what updateItem did  *)
(* to the item since, it did to the record.                                *)
C24_AddedItemIsItsRecord ==
    (view = "Review" /\ sessionId /\ loadpc = "loaded" /\ ops = {}) =>
        \A it \in Range(items) :
            it.id = AddedItem.id =>
                \E r \in Range(rows) :
                    /\ r.id = InsertedId
                    /\ <<r.name, r.quantity, r.volume, r.weight, r.room, r.is_going>>
                         = <<it.name, it.quantity, it.volume, it.weight, it.room,
                             it.is_going>>

(* C25: on the owner's page of a session whose rows were loaded, when the  *)
(* operations started have all finished (overlapping or not) and none of   *)
(* them addressed the item added in this visit, the list holds the         *)
(* persisted items: the same items in the same order, field for field.     *)
C25_OverlappingOpsBothApplied ==
    (/\ view = "Review" /\ sessionId /\ loadpc = "loaded" /\ ops = {}
     /\ Ids(items) \cap Ids(mockItems) = {}
     /\ AddedItem.id \notin edited) =>
        [j \in 1..Len(items) |-> SavedFields(items[j])]
            = [j \in 1..Len(rows) |-> SavedFields(rows[j])]

(* C27: in the shared view loaded with a view-level token no step writes   *)
(* the session row: its safety_factor and its totals stay as they are.     *)
C27_ViewTokenKeepsSession ==
    [][(loadpc = "loaded" /\ accessToken.access_level = "view") => session' = session]_vars

-----------------------------------------------------------------------------
(* The share link over time: the owner revokes it (ShareDialog.tsx), and   *)
(* the same link is opened in another browser while this one loads.        *)

tokenFrame == <<view, sessionId, token, items, rows, session, ownerVars, accessToken,
                loadpc, itemQueries, safetyFactor, newItem, activeAddFormRoom,
                report, returnedEarly, accessData, pipelineVars, parseVars,
                debounceVars>>

(* revokeAccess, ShareDialog.tsx:172-195, for a token the dialog lists     *)
(* (loadExistingTokens, lines 77-91, lists the active ones).               *)
revokeAccess(tokenId) ==
    /\ view = "Shared"
    /\ FindToken(tokenId) # {}
    /\ revoked' = revoked \cup {tokenId}
    /\ UNCHANGED <<accessCount, visitor, tokenFrame>>

(* loadSharedData in the other browser, SharedInventory.tsx:115-138.       *)
VisitorValidates ==
    /\ view = "Shared"
    /\ visitor.pc = "idle"
    /\ visitor' = IF token # "" /\ FindToken(token) # {}
                  THEN [pc |-> "track", access_count |-> accessCount]
                  ELSE [visitor EXCEPT !.pc = "rejected"]
    /\ UNCHANGED <<revoked, accessCount, tokenFrame>>

(* Lines 140-147 there.                                                    *)
VisitorTracks ==
    /\ view = "Shared"
    /\ visitor.pc = "track"
    /\ accessCount' = visitor.access_count + 1
    /\ visitor' = [visitor EXCEPT !.pc = "items"]
    /\ UNCHANGED <<revoked, tokenFrame>>

(* Lines 149-190 there: the load ends with the items shown or in the catch. *)
VisitorLoads ==
    /\ view = "Shared"
    /\ visitor.pc = "items"
    /\ \E outcome \in {"loaded", "rejected"} : visitor' = [visitor EXCEPT !.pc = outcome]
    /\ UNCHANGED <<revoked, accessCount, tokenFrame>>

NextTokens ==
    \/ ValidateToken
    \/ TrackAccess
    \/ LoadItems
    \/ \E id \in ItemIds, updates \in Updates : SharedUpdateItem(id, updates)
    \/ \E id \in DeletedIds : SharedDeleteItem(id)
    \/ \E op \in ops : SharedPersist(op)
    \/ \E op \in ops : SharedFinish(op)
    \/ revokeAccess(token)
    \/ VisitorValidates
    \/ VisitorTracks
    \/ VisitorLoads

SpecTokens == InitShared /\ [][NextTokens]_vars

(* C26: once the token of the link has been revoked, no step changes the   *)
(* session's rows through a shared view of that link, be it opened after   *)
(* the revocation or before it.                                            *)
C26_RevokedTokenCannotMutate ==
    [][(revoked \cap {token} # {}) => (rows' = rows)]_vars

(* C28: when no load of the link is in progress, the access count of the   *)
(* token is not less than the number of loads that ended with the items    *)
(* shown: no increment is lost.                                            *)
C28_AccessCountNotLost ==
    (loadpc \in {"idle", "loaded", "rejected"}
        /\ visitor.pc \in {"idle", "loaded", "rejected"}) =>
        accessCount >= (IF loadpc = "loaded" THEN 1 ELSE 0)
                         + (IF visitor.pc = "loaded" THEN 1 ELSE 0)

-----------------------------------------------------------------------------
(* The uploaded_images rows of the session, by the run that inserted them  *)
(* and the index in their file_path (Upload.tsx:185-207: the index is      *)
(* index + 1 of the file in the run's own selection).  The rows a          *)
(* continued session holds were extracted from photos an earlier run       *)
(* uploaded.                                                               *)
uploadedImages ==
    {[run |-> "earlier", index |-> r.found_in_image] : r \in Range(RowsBeforeRun)}
        \cup {[run |-> "this", index |-> k] : k \in uploaded}

(* parseInt(img.file_path.split('_')[1]) || 0 matched against the          *)
(* found_in_image of an item, Review.tsx:565-571.                          *)
getRoomPhotos(imageNumber) == {img \in uploadedImages : img.index = imageNumber}

(* C29: for every row of the session with found_in_image = k, exactly one  *)
(* uploaded image of the session has index k in its file path, and it is   *)
(* an image of the run that extracted the row.                             *)
C29_PhotoIndexUnambiguous ==
    \A j \in 1..Len(dbItems) :
        LET run == IF j <= Len(RowsBeforeRun) THEN "earlier" ELSE "this"
            photos == getRoomPhotos(dbItems[j].found_in_image)
        IN /\ Cardinality(photos) = 1
           /\ \A img \in photos : img.run = run

-----------------------------------------------------------------------------
(* The page with cached totals with its own deleteItem and addNewItem,     *)
(* part_002:361-435, which have the shape of those of Review.tsx: neither  *)
(* recomputes the cache nor marks the list unsaved.                        *)
CachedDeleteItem(id) ==
    /\ view = "Cached"
    /\ id \in Ids(items)
    /\ StartOp(Op("delete", id, <<>>))

CachedAddNewItem ==
    /\ view = "Cached"
    /\ AddedItem.id \notin Ids(items)
    /\ InsertedId \notin Ids(rows)
    /\ \A op \in ops : op.kind # "add"
    /\ StartOp(Op("add", AddedItem.id, AddedItem))

InitCache ==
    /\ InitReview
    /\ view = "Cached"

NextCache ==
    \/ loadInventoryData
    \/ \E id \in ItemIds, updates \in Updates : updateItemLocally(id, updates)
    \/ \E id \in DeletedIds : CachedDeleteItem(id)
    \/ CachedAddNewItem
    \/ \E op \in ops : PersistOp(op)
    \/ \E op \in ops : FinishOp(op)

SpecCache == InitCache /\ [][NextCache]_vars

(* C30: on the loaded page with cached totals, whenever the cached totals  *)
(* or the cached room groups are not those of the current list,            *)
(* hasUnsavedChanges is true.                                              *)
C30_StalenessSignalled ==
    (view = "Cached" /\ loadpc = "loaded"
        /\ \/ cachedTotals.totalItems # QuantityOf(items)
           \/ cachedTotals.totalVolume # VolumeOf(items)
           \/ cachedTotals.totalWeight # WeightOf(items)
           \/ cachedTotals.roomGroups # roomGroups(items))
      => hasUnsavedChanges

====
